---------------------------- MODULE Spec2Model ----------------------------
(***************************************************************************)
(* A model of the AI_Finance chat core:                                    *)
(*   - the inference gateway (getOptimalModel, callAIWithBestModel),       *)
(*   - the classifiers (extractFinancialData, extractExpenseFromMessage),  *)
(*   - the per-user conversation state machine (processChatMessage,        *)
(*     handleExpenseCreation, handleExpenseCompletion, ...).               *)
(* Each part has its own specification over the shared variables; a part   *)
(* that a specification does not exercise stays in its initial state.      *)
(***************************************************************************)
EXTENDS Integers, Sequences, FiniteSets, TLC

\* A value that is absent in the source (undefined / null).
Absent == "<absent>"

----------------------------------------------------------------------------
(***************************************************************************)
(* 1. The inference gateway                                                *)
(***************************************************************************)

VARIABLES
    gwPc,         \* position of the one callAIWithBestModel invocation
    gwTask,       \* its argument task
    gwMessages,   \* its argument messages
    gwTools,      \* its argument tools (given: FALSE when undefined)
    gwCalls,      \* the provider calls made so far, in order
    gwInflight,   \* indices (into gwCalls) of the calls not yet settled
    gwOutcome     \* what the invocation gave its caller

gwVars == <<gwPc, gwTask, gwMessages, gwTools, gwCalls, gwInflight, gwOutcome>>

\* The tasks the callers pass (part_000:162,466,566,732,1070), the other keys
\* of the table, and one task the table does not know.
Tasks == {"expense-extraction", "conversation", "spending-analysis",
          "receipt-ocr", "voice-to-text", "backup", "categorization"}

\* Message lists and tool lists a caller may pass.
MessageLists == {<<"m1">>, <<"m1", "m2">>, <<"m3">>}
NoTools == [given |-> FALSE, list |-> <<>>]
ToolLists == {NoTools, [given |-> TRUE, list |-> <<"t1">>]}

\* What a provider call can resolve with: a completion object, or a value
\* on which the statements that follow the call throw (null).
NullResponse == "<null>"
Responses == {"respA", "respB", NullResponse}
Errors == {"errA", "errB"}

ModelTable ==
    [t \in {"expense-extraction", "conversation", "spending-analysis",
            "receipt-ocr", "voice-to-text", "backup"} |->
        CASE t = "expense-extraction" -> [model |-> "openai/gpt-4o", client |-> "githubAI", type |-> "github"]
          [] t = "conversation"       -> [model |-> "openai/gpt-4o-mini", client |-> "githubAI", type |-> "github"]
          [] t = "spending-analysis"  -> [model |-> "deepseek/deepseek-v3-0324", client |-> "githubAI", type |-> "github"]
          [] t = "receipt-ocr"        -> [model |-> "openai/gpt-4o", client |-> "githubAI", type |-> "github"]
          [] t = "voice-to-text"      -> [model |-> "openai/whisper-1", client |-> "githubAI", type |-> "github"]
          [] t = "backup"             -> [model |-> "llama-3.3-70b-versatile", client |-> "groq", type |-> "groq"]]

\* models[task] || models["conversation"]
getOptimalModel(task) ==
    IF task \in DOMAIN ModelTable THEN ModelTable[task] ELSE ModelTable["conversation"]

\* tool_choice: tools ? "auto" : undefined
ToolChoice(tools) == IF tools.given THEN "auto" ELSE Absent

\* One client.chat.completions.create({model, messages, tools, tool_choice}).
ProviderCall(role, config, messages, tools) ==
    [role |-> role, client |-> config.client, model |-> config.model,
     messages |-> messages, tools |-> tools, tool_choice |-> ToolChoice(tools),
     settled |-> "pending", value |-> Absent]

NoOutcome == [kind |-> "none", value |-> Absent]

GwInit ==
    /\ gwPc = "start"
    /\ gwTask \in Tasks
    /\ gwMessages \in MessageLists
    /\ gwTools \in ToolLists
    /\ gwCalls = <<>>
    /\ gwInflight = {}
    /\ gwOutcome = NoOutcome

\* The part at rest: no invocation is made.
GwOff ==
    /\ gwPc = "off"
    /\ gwTask = Absent
    /\ gwMessages = <<>>
    /\ gwTools = NoTools
    /\ gwCalls = <<>>
    /\ gwInflight = {}
    /\ gwOutcome = NoOutcome

Settle(calls, i, how, v) == [calls EXCEPT ![i].settled = how, ![i].value = v]

\* The role of the call made in the catch block (part_000:97-105).
FallbackCallRole == "fallback"

\* A slip in the catch block: the backup call is made without the tools.
IssueFallbackNoTools(calls) ==
    Append(calls, ProviderCall(FallbackCallRole, getOptimalModel("backup"),
                               gwMessages, NoTools))

\* The catch block up to its await: getOptimalModel("backup") and the call.
IssueFallback(calls) ==
    Append(calls, ProviderCall(FallbackCallRole, getOptimalModel("backup"),
                               gwMessages, gwTools))

\* part_000:61-83: config = getOptimalModel(task); the primary create() call.
GwCallPrimary ==
    /\ gwPc = "start"
    /\ gwCalls' = Append(gwCalls, ProviderCall("primary", getOptimalModel(gwTask),
                                               gwMessages, gwTools))
    /\ gwInflight' = {Len(gwCalls) + 1}
    /\ gwPc' = "await_primary"
    /\ UNCHANGED <<gwTask, gwMessages, gwTools, gwOutcome>>

\* What follows a resolved primary call (part_000:85-91): reading
\* response.usage throws on a null response, which lands in the catch block.
AfterPrimaryResolved(calls, r) ==
    IF r = NullResponse
    THEN /\ gwCalls' = IssueFallback(calls)
         /\ gwInflight' = {Len(calls) + 1}
         /\ gwPc' = "await_fallback"
         /\ UNCHANGED gwOutcome
    ELSE /\ gwCalls' = calls
         /\ gwInflight' = {}
         /\ gwPc' = "returned"
         /\ gwOutcome' = [kind |-> "return", value |-> r]

\* The primary call resolves.
GwPrimaryResolves ==
    /\ gwPc = "await_primary"
    /\ \E r \in Responses :
          AfterPrimaryResolved(Settle(gwCalls, 1, "resolved", r), r)
    /\ UNCHANGED <<gwTask, gwMessages, gwTools>>

\* part_000:92-105: the primary call rejects; the catch block calls the backup.
GwPrimaryRejects ==
    /\ gwPc = "await_primary"
    /\ \E e \in Errors :
          /\ gwCalls' = IssueFallback(Settle(gwCalls, 1, "rejected", e))
          /\ gwInflight' = {Len(gwCalls) + 1}
    /\ gwPc' = "await_fallback"
    /\ UNCHANGED <<gwTask, gwMessages, gwTools, gwOutcome>>

\* part_000:107-108: the fallback call resolves; its value is returned as is.
GwFallbackResolves ==
    /\ gwPc = "await_fallback"
    /\ \E r \in Responses :
          /\ gwCalls' = Settle(gwCalls, 2, "resolved", r)
          /\ gwOutcome' = [kind |-> "return", value |-> r]
    /\ gwInflight' = {}
    /\ gwPc' = "returned"
    /\ UNCHANGED <<gwTask, gwMessages, gwTools>>

\* A slip in the inner catch: the error is logged and swallowed.
GwFallbackRejectsSwallowed ==
    /\ gwPc = "await_fallback"
    /\ \E e \in Errors :
          /\ gwCalls' = Settle(gwCalls, 2, "rejected", e)
          /\ gwOutcome' = [kind |-> "return", value |-> Absent]
    /\ gwInflight' = {}
    /\ gwPc' = "returned"
    /\ UNCHANGED <<gwTask, gwMessages, gwTools>>

\* part_000:109-112: the fallback call rejects; its error is rethrown.
GwFallbackRejects ==
    /\ gwPc = "await_fallback"
    /\ \E e \in Errors :
          /\ gwCalls' = Settle(gwCalls, 2, "rejected", e)
          /\ gwOutcome' = [kind |-> "throw", value |-> e]
    /\ gwInflight' = {}
    /\ gwPc' = "thrown"
    /\ UNCHANGED <<gwTask, gwMessages, gwTools>>

----------------------------------------------------------------------------
(***************************************************************************)
(* 2. The classifiers: extractFinancialData and extractExpenseFromMessage   *)
(***************************************************************************)

\* A JavaScript object is a function from its present keys to their values;
\* a key whose value is undefined or null is not in the domain.
EmptyObj == [k \in {} |-> Absent]
Has(o, k) == k \in DOMAIN o
\* One optional field: vals is {} (absent) or a one-element set.
Field(k, vals) == [x \in (IF vals = {} THEN {} ELSE {k}) |-> CHOOSE v \in vals : TRUE]

\* JavaScript truthiness of a field holding a string, a number, a boolean:
\* present, and not the empty string, not 0, not false.
TruthyStr(o, k) == Has(o, k) /\ o[k] # ""
TruthyNum(o, k) == Has(o, k) /\ o[k] # 0
TruthyBool(o, k) == Has(o, k) /\ o[k]

\* The amounts, names, descriptions and categories a model output may carry.
AmountValues == {-5, 0, 150, 200}
NameValues == {"", "coffee"}
DescriptionValues == {"latte"}
CategoryValues == {"", "food"}

OptionsOf(S) == {{}} \cup {{v} : v \in S}

\* expenseData objects of a model output (part_000:142-149).
ExpenseDatas ==
    {Field("amount", a) @@ Field("name", n) @@ Field("description", d) @@ Field("category", c) :
        a \in OptionsOf(AmountValues), n \in OptionsOf(NameValues),
        d \in OptionsOf(DescriptionValues), c \in OptionsOf(CategoryValues)}

\* The tokens of a completion's content: code fences, whitespace runs, prose
\* and one JSON text.
FenceJson == [t |-> "fence_json"]
Fence == [t |-> "fence"]
Ws == [t |-> "ws"]
Prose == [t |-> "text"]
Json(v) == [t |-> "json", v |-> v]

\* JSON values: an object, or a value that is no object.
JObject(o) == [k |-> "object", o |-> o]
JNull == [k |-> "null"]
JNumber == [k |-> "number"]

\* The ways a model wraps its JSON text.
Wrappings(j) ==
    {<<j>>,
     <<FenceJson, Ws, j, Ws, Fence>>,
     <<Fence, Ws, j, Ws, Fence>>,
     <<Ws, j, Ws>>,
     <<FenceJson, j, Fence>>,
     <<Prose, Ws, FenceJson, Ws, j, Ws, Fence>>,
     <<j, Ws, Prose>>}

\* Contents carrying no JSON text at all; the empty content stands for a
\* null content as well.
BareContents == {<<>>, <<Prose>>, <<FenceJson, Ws, Fence>>, <<Ws>>}

\* Drops the whitespace tokens at the head of a content: the \s* of a pattern.
RECURSIVE SkipWs(_)
SkipWs(c) == IF c # <<>> /\ Head(c) = Ws THEN SkipWs(Tail(c)) ELSE c

\* content.replace(/<fence>\s*/g, ""): every such fence and the whitespace
\* after it is removed.
RECURSIVE ReplaceFence(_, _)
ReplaceFence(c, fence) ==
    IF c = <<>> THEN <<>>
    ELSE IF Head(c) = fence THEN ReplaceFence(SkipWs(Tail(c)), fence)
    ELSE <<Head(c)>> \o ReplaceFence(Tail(c), fence)

RECURSIVE TrimEnd(_)
TrimEnd(c) ==
    IF c # <<>> /\ c[Len(c)] = Ws THEN TrimEnd(SubSeq(c, 1, Len(c) - 1)) ELSE c

\* String.prototype.trim
Trim(c) == TrimEnd(SkipWs(c))

\* part_000:169-172 and 739-742: the clean-up of markdown code blocks.
StripCodeFences(c) == Trim(ReplaceFence(ReplaceFence(c, FenceJson), Fence))

\* JSON.parse: the value of a content that is one JSON text (whitespace
\* around it allowed), a SyntaxError otherwise.
ParseThrows == [k |-> "SyntaxError"]
JSONparse(c) ==
    LET t == Trim(c)
    IN  IF Len(t) = 1 /\ t[1].t = "json" THEN t[1].v ELSE ParseThrows

\* The text of the empty object, used when message.content is null or empty.
EmptyObjectText == <<Json(JObject(EmptyObj))>>

\* What callAIWithBestModel gives the classifier: it throws, or returns a
\* completion: null (a fallback's null is returned as is), one without
\* choices, or one whose first choice has the content.
GwThrow(e) == [kind |-> "throw", value |-> [error |-> e]]
GwReturn(r) == [kind |-> "return", value |-> r]
NullCompletion == [choices |-> "null"]
NoChoices == [choices |-> "empty"]
Completion(content) == [choices |-> "one", content |-> content]

\* The type tags a model may answer with (the empty string is falsy).
TypeValues == {"", "none", "expense", "income", "budget", "goal",
               "analytics", "advice", "weather"}

\* Objects answered to the extractFinancialData prompt (part_000:683-695).
FinancialObjects ==
    {Field("type", t) @@ Field("data", d) @@ Field("isMultiple", m) :
        t \in OptionsOf(TypeValues),
        d \in OptionsOf({"payload"}),
        m \in OptionsOf({TRUE, FALSE})}

\* Objects answered to the extractExpenseFromMessage prompt (part_000:140-151).
ExpenseObjects ==
    {Field("hasExpense", h) @@ Field("expenseData", d) :
        h \in OptionsOf({TRUE, FALSE}), d \in OptionsOf(ExpenseDatas)}

ContentsOver(objects) ==
    BareContents
      \cup UNION {Wrappings(Json(JObject(o))) : o \in objects}
      \cup Wrappings(Json(JNull)) \cup Wrappings(Json(JNumber))

GatewayResultsOver(objects) ==
    {GwThrow(e) : e \in Errors}
      \cup {GwReturn(NullCompletion), GwReturn(NoChoices)}
      \cup {GwReturn(Completion(c)) : c \in ContentsOver(objects)}

\* A call that threw to its caller, and one that returned v.
Raised == [kind |-> "throw"]
Returned(v) == [kind |-> "return", value |-> v]

\* response.choices[0].message.content, or the empty object's text: a TypeError on a null
\* completion or on one without choices.
ContentOf(completion) ==
    IF completion.choices # "one" THEN [typeError |-> TRUE, text |-> <<>>]
    ELSE IF completion.content = <<>> THEN [typeError |-> FALSE, text |-> EmptyObjectText]
    ELSE [typeError |-> FALSE, text |-> completion.content]

NoneResult == [type |-> "none", hasData |-> FALSE]

\* The try block of extractFinancialData after the gateway call
\* (part_000:736-758); Raised stands for any exception raised in it.
FinancialTry(gw) ==
    IF gw.kind = "throw" THEN Raised
    ELSE LET content == ContentOf(gw.value)
         IN  IF content.typeError THEN Raised
             ELSE LET result == JSONparse(StripCodeFences(content.text))
                  IN  IF result.k = "SyntaxError" THEN Raised
                      ELSE IF result.k = "null" THEN Raised
                      ELSE IF result.k # "object" THEN Returned(NoneResult)
                      ELSE IF ~TruthyStr(result.o, "type") \/ result.o["type"] = "none"
                           THEN Returned(NoneResult)
                      ELSE Returned(
                             [type |-> result.o["type"], hasData |-> TRUE,
                              isMultiple |-> TruthyBool(result.o, "isMultiple")]
                             @@ Field("data", IF Has(result.o, "data")
                                              THEN {result.o["data"]} ELSE {}))

\* A slip: the catch block rethrows instead of answering "none".
extractFinancialDataRethrows(gw) ==
    FinancialTry(gw)

\* part_000:729-763: extractFinancialData from the gateway's outcome on; the
\* catch block turns every exception into the "none" result.
extractFinancialData(gw) ==
    LET r == FinancialTry(gw) IN IF r.kind = "throw" THEN Returned(NoneResult) ELSE r

VARIABLES
    exFn,      \* the classifier applied: "financial" or "expense"
    exGw,      \* the gateway's outcome for its call
    exOut      \* its result (NotRun before it has run)

exVars == <<exFn, exGw, exOut>>

NotRun == [kind |-> "notrun"]

ExInit ==
    /\ exFn \in {"financial", "expense"}
    /\ exGw \in (IF exFn = "financial" THEN GatewayResultsOver(FinancialObjects)
                 ELSE GatewayResultsOver(ExpenseObjects))
    /\ exOut = NotRun

ExOff ==
    /\ exFn = "off"
    /\ exGw = NotRun
    /\ exOut = NotRun

\* extractFinancialData runs on the gateway's outcome.
ExFinancial ==
    /\ exFn = "financial"
    /\ exOut = NotRun
    /\ exOut' = extractFinancialData(exGw)
    /\ UNCHANGED <<exFn, exGw>>

\* The clarifying questions of extractExpenseFromMessage (part_000:200-208);
\* the category question quotes the amount.
QuestionAmount == [about |-> "amount", text |-> "Could you tell me the amount you spent?"]
QuestionDescription == [about |-> "description", text |-> "Could you tell me what you bought?"]
QuestionCategory(d) == [about |-> "category", text |-> "What category is this expense?",
                        amount |-> d["amount"]]

\* part_000:185: !amount || amount <= 0
AmountMissing(d) == ~TruthyNum(d, "amount") \/ d["amount"] <= 0
\* part_000:189: !name && !description
DescriptionMissing(d) == ~TruthyStr(d, "name") /\ ~TruthyStr(d, "description")
\* part_000:193: !category
CategoryMissing(d) == ~TruthyStr(d, "category")

\* A slip: the category is examined before the description.
MissingFieldsCategoryFirst(d) ==
    (IF AmountMissing(d) THEN <<"amount">> ELSE <<>>)
      \o (IF CategoryMissing(d) THEN <<"category">> ELSE <<>>)
      \o (IF DescriptionMissing(d) THEN <<"description">> ELSE <<>>)

\* part_000:183-195: the three pushes, in their order.
MissingFieldsOf(d) ==
    (IF AmountMissing(d) THEN <<"amount">> ELSE <<>>)
      \o (IF DescriptionMissing(d) THEN <<"description">> ELSE <<>>)
      \o (IF CategoryMissing(d) THEN <<"category">> ELSE <<>>)

Includes(seq, x) == \E i \in 1..Len(seq) : seq[i] = x

\* A slip: the chain of part_000:200-208 starts with the category.
ClarificationQuestionCategoryFirst(missingFields, d) ==
    IF Len(missingFields) > 0
    THEN IF Includes(missingFields, "category") THEN {QuestionCategory(d)}
         ELSE IF Includes(missingFields, "amount") THEN {QuestionAmount}
         ELSE IF Includes(missingFields, "description") THEN {QuestionDescription}
         ELSE {}
    ELSE {}

\* part_000:198-209: the question, as the set holding it ({} for the empty
\* string, which the return statement turns into undefined).
ClarificationQuestion(missingFields, d) ==
    IF Len(missingFields) > 0
    THEN IF Includes(missingFields, "amount") THEN {QuestionAmount}
         ELSE IF Includes(missingFields, "description") THEN {QuestionDescription}
         ELSE IF Includes(missingFields, "category") THEN {QuestionCategory(d)}
         ELSE {}
    ELSE {}

NoExpense == [hasExpense |-> FALSE]

\* part_000:161-221: extractExpenseFromMessage from the gateway's outcome on.
extractExpenseFromMessage(gw) ==
    IF gw.kind = "throw" THEN NoExpense
    ELSE LET content == ContentOf(gw.value)
         IN  IF content.typeError THEN NoExpense
             ELSE LET result == JSONparse(StripCodeFences(content.text))
                  IN  IF result.k = "SyntaxError" THEN NoExpense
                      ELSE IF result.k # "object" THEN NoExpense
                      ELSE IF ~TruthyBool(result.o, "hasExpense") THEN NoExpense
                      ELSE IF ~Has(result.o, "expenseData") THEN NoExpense
                      ELSE LET d == result.o["expenseData"]
                               missingFields == MissingFieldsOf(d)
                           IN  [hasExpense |-> TRUE, expenseData |-> d]
                                 @@ Field("missingFields",
                                          IF Len(missingFields) > 0 THEN {missingFields} ELSE {})
                                 @@ Field("clarificationQuestion",
                                          ClarificationQuestion(missingFields, d))

\* extractExpenseFromMessage runs on the gateway's outcome.
ExExpense ==
    /\ exFn = "expense"
    /\ exOut = NotRun
    /\ exOut' = Returned(extractExpenseFromMessage(exGw))
    /\ UNCHANGED <<exFn, exGw>>

----------------------------------------------------------------------------
(***************************************************************************)
(* 3. The conversation state machine: processChatMessage and its handlers   *)
(***************************************************************************)

\* Model bounds: the users, the requests in flight at once, the requests
\* made in one behaviour.
Users == {"u1", "u2"}
MaxInflight == 2
MaxRequests == 2
Slots == 1..MaxInflight

\* An utterance: its text (already trimmed) and its tokens.
Num(n) == [n |-> n]
Word(w) == [w |-> w]
IsNum(tok) == "n" \in DOMAIN tok
Utterance(text, tokens) == [text |-> text, tokens |-> tokens]

Utterances ==
    {Utterance("150", <<Num(150)>>),
     Utterance("0", <<Num(0)>>),
     Utterance("latte", <<Word("latte")>>),
     Utterance("food", <<Word("food")>>),
     Utterance("hi", <<Word("hi")>>)}

\* part_000:2386: message.match(/(\d+(?:\.\d{1,2})?)/), the first number of
\* the message ({} when there is none).
AmountMatch(msg) ==
    LET nums == SelectSeq(msg.tokens, IsNum)
    IN  IF nums = <<>> THEN {} ELSE {nums[1].n}

\* part_000:2488: the category names the reply is matched against.
CategoryNames == {"food", "transport", "entertainment", "shopping", "bills",
                  "healthcare", "utilities", "other"}

IsCategoryWord(tok) == ~IsNum(tok) /\ tok.w \in CategoryNames

\* part_000:2485-2489: the first category name in the lower-cased message.
CategoryMatch(msg) ==
    LET cats == SelectSeq(msg.tokens, IsCategoryWord)
    IN  IF cats = <<>> THEN {} ELSE {cats[1].w}

\* part_000:1987-1991: the message is just a greeting.
GreetingWords == {"hi", "hello", "hey", "good morning", "good afternoon",
                  "good evening", "greetings", "what's up", "sup", "howdy"}
IsGreeting(msg) == msg.text \in GreetingWords

\* o with key k set to v ({...o, k: v}, or o.k = v on a copy).
With(o, k, v) == [x \in DOMAIN o \cup {k} |-> IF x = k THEN v ELSE o[x]]

\* part_000:224-293 on the texts of this model: the keyword lookup.
categorizeExpenseAuto(description) ==
    CASE description \in {"coffee", "food", "lunch"} -> "food"
      [] description \in {"uber", "taxi"} -> "transport"
      [] OTHER -> "other"

\* The first of the listed keys of o that holds a non-empty string, else dflt.
FirstText(o, keys, dflt) ==
    LET good == SelectSeq(keys, LAMBDA k : TruthyStr(o, k))
    IN  IF good = <<>> THEN dflt ELSE o[good[1]]

\* A slip: the keyword lookup is used whether or not a category is given.
CategoryNameAlwaysLookedUp(d) ==
    categorizeExpenseAuto(FirstText(d, <<"description", "name">>, ""))

\* part_000:316-318: expenseData.category || categorizeExpenseAuto(...)
CategoryNameOf(d) ==
    IF TruthyStr(d, "category") THEN d["category"]
    ELSE categorizeExpenseAuto(FirstText(d, <<"description", "name">>, ""))

\* part_000:341: the name made of the category name, for the category
\* names of this model.
DefaultName(categoryName) ==
    CASE categoryName = "food" -> "food expense"
      [] categoryName = "transport" -> "transport expense"
      [] OTHER -> "other expense"

\* part_000:336-348: the row given to expenseModel.create. The amount is
\* passed as it is, absent when the data has none.
ExpenseCreateData(d) ==
    [categoryName |-> CategoryNameOf(d),
     name |-> FirstText(d, <<"name", "description">>, DefaultName(CategoryNameOf(d)))]
      @@ Field("amount", IF Has(d, "amount") THEN {d["amount"]} ELSE {})

\* What the database can do with a save: the category lookup throws before
\* anything is created, create() throws, or the row is stored. A row
\* without an amount is refused (amount is NOT NULL, README.md:620).
SaveOutcomes(row) ==
    {"lookup_throws", "create_throws"}
      \cup (IF Has(row, "amount") THEN {"stored"} ELSE {})

\* part_000:2532-2543: getQuestionForMissingField, by the tag of its text.
getQuestionForMissingField(field) ==
    CASE field = "amount" -> "ask_amount"
      [] field = "description" -> "ask_description"
      [] field = "category" -> "ask_category"
      [] OTHER -> "ask_details"

\* missingFields.filter((f) => f !== field)
Without(missingFields, field) == SelectSeq(missingFields, LAMBDA f : f # field)

\* What a run of handleExpenseCompletion comes to, from one of its four
\* parts to its next await or its return: the pending expense and
\* state.missingFields as it leaves them, and either the call of
\* saveExpenseToDatabase it waits for, or its result (fresh: the returned
\* state is a new { userId } object, not the state it was given).
CompletionSave(pe, stateMissing, step) ==
    [kind |-> "save", pendingExpense |-> pe, missingFields |-> stateMissing,
     step |-> step, completed |-> FALSE, response |-> "", fresh |-> FALSE]
CompletionReturn(pe, stateMissing, completed, response, fresh) ==
    [kind |-> "return", pendingExpense |-> pe, missingFields |-> stateMissing,
     step |-> "", completed |-> completed, response |-> response, fresh |-> fresh]

\* part_000:2523-2528: the final return.
CompletionEnd(pe, stateMissing) ==
    CompletionReturn(pe, stateMissing, FALSE, "not_understood", FALSE)

\* part_000:2484-2521: the category part; missingFields is the array read at
\* the start of the run.
CompletionCategory(pe, stateMissing, missingFields, msg) ==
    IF Includes(missingFields, "category")
    THEN IF CategoryMatch(msg) # {}
         THEN LET pe2 == With(pe, "category", CHOOSE c \in CategoryMatch(msg) : TRUE)
              IN  IF TruthyNum(pe2, "amount")
                  THEN CompletionSave(pe2, stateMissing, "category")
                  ELSE CompletionEnd(pe2, stateMissing)
         ELSE CompletionReturn(pe, stateMissing, FALSE, "choose_category", FALSE)
    ELSE CompletionEnd(pe, stateMissing)

\* part_000:2442-2482: the description part.
CompletionDescription(pe, stateMissing, missingFields, msg) ==
    IF Includes(missingFields, "description") /\ ~TruthyStr(pe, "name")
    THEN LET pe2 == With(With(pe, "name", msg.text), "description", msg.text)
             newMissingFields == Without(missingFields, "description")
         IN  IF Len(newMissingFields) = 0
             THEN IF TruthyNum(pe2, "amount")
                  THEN CompletionSave(pe2, stateMissing, "description")
                  ELSE CompletionCategory(pe2, stateMissing, missingFields, msg)
             ELSE CompletionReturn(pe2, newMissingFields, FALSE,
                                   getQuestionForMissingField(newMissingFields[1]), FALSE)
    ELSE CompletionCategory(pe, stateMissing, missingFields, msg)

\* A slip: a reply without an amount still takes the amount off the missing
\* fields.
CompletionAmountGivesUp(pe, stateMissing, missingFields, msg) ==
    IF Includes(missingFields, "amount")
    THEN IF AmountMatch(msg) # {}
         THEN LET pe2 == With(pe, "amount", CHOOSE a \in AmountMatch(msg) : TRUE)
                  newMissingFields == Without(missingFields, "amount")
              IN  IF Len(newMissingFields) = 0
                  THEN IF TruthyNum(pe2, "amount")
                       THEN CompletionSave(pe2, stateMissing, "amount")
                       ELSE CompletionDescription(pe2, stateMissing, missingFields, msg)
                  ELSE CompletionReturn(pe2, newMissingFields, FALSE,
                                        getQuestionForMissingField(newMissingFields[1]), FALSE)
         ELSE CompletionReturn(pe, Without(stateMissing, "amount"), FALSE,
                               "no_amount_found", FALSE)
    ELSE CompletionDescription(pe, stateMissing, missingFields, msg)

\* part_000:2385-2440: the amount part.
CompletionAmount(pe, stateMissing, missingFields, msg) ==
    IF Includes(missingFields, "amount")
    THEN IF AmountMatch(msg) # {}
         THEN LET pe2 == With(pe, "amount", CHOOSE a \in AmountMatch(msg) : TRUE)
                  newMissingFields == Without(missingFields, "amount")
              IN  IF Len(newMissingFields) = 0
                  THEN IF TruthyNum(pe2, "amount")
                       THEN CompletionSave(pe2, stateMissing, "amount")
                       ELSE CompletionDescription(pe2, stateMissing, missingFields, msg)
                  ELSE CompletionReturn(pe2, newMissingFields, FALSE,
                                        getQuestionForMissingField(newMissingFields[1]), FALSE)
         ELSE CompletionReturn(pe, stateMissing, FALSE, "no_amount_found", FALSE)
    ELSE CompletionDescription(pe, stateMissing, missingFields, msg)

\* A slip: a completed expense leaves the state it was given in place.
CompletionAfterSaveKeepsState(step, success, pe, stateMissing, missingFields, msg) ==
    IF success
    THEN CompletionReturn(pe, stateMissing, TRUE, "completion_saved", FALSE)
    ELSE CompletionEnd(pe, stateMissing)

\* handleExpenseCompletion from the return of saveExpenseToDatabase on:
\* part_000:2399-2416 (amount), 2456-2468 (description), 2500-2512 (category).
CompletionAfterSave(step, success, pe, stateMissing, missingFields, msg) ==
    IF success
    THEN CompletionReturn(pe, stateMissing, TRUE, "completion_saved", TRUE)
    ELSE CASE step = "amount" ->
                CompletionReturn(pe, stateMissing, FALSE, "completion_save_failed", TRUE)
           [] step = "description" ->
                CompletionCategory(pe, stateMissing, missingFields, msg)
           [] step = "category" ->
                CompletionEnd(pe, stateMissing)

VARIABLES
    conversationStates,  \* per user: "none" (no entry), "object" (the state
                         \* object of stateObjects), "fresh" (a { userId } object)
    stateObjects,        \* per user: the state object stored first, which
                         \* every run of handleExpenseCompletion shares
    requests,            \* per slot: one call of processChatMessage
    started,             \* the calls of processChatMessage made so far
    expenses             \* what has been given to expenseModel.create

chatVars == <<conversationStates, stateObjects, requests, started, expenses>>

\* Completion results and classification results are kept apart from "none yet".
\* A result of processChatMessage: the tag of its response text, its action,
\* its data ({} when it has none) and the total its text names ({} when it
\* names none).
ResultOf(response, action, data, total) ==
    [response |-> response, action |-> action, data |-> data, total |-> total]
Result(response, action) == ResultOf(response, action, {}, {})
NoResult == Result("", Absent)

NoUtterance == Utterance("", <<>>)

IdleRequest ==
    [pc |-> "idle", id |-> 0, user |-> "", message |-> NoUtterance,
     path |-> "", missingFields |-> <<>>, step |-> "", args |-> {},
     item |-> 0, items |-> <<>>, successful |-> <<>>, failed |-> <<>>,
     saveFailed |-> FALSE, completed |-> FALSE, providerFailed |-> FALSE,
     result |-> NoResult]

NewRequest(id, u, msg) ==
    [IdleRequest EXCEPT !.pc = "context", !.id = id, !.user = u, !.message = msg]

\* part_000:1947: conversationStates.get(userId) || { userId }
StoredState(u) ==
    IF conversationStates[u] = "object" THEN stateObjects[u] ELSE [userId |-> u]

\* A slip: the greeting test comes before the pending test.
RouteGreetingFirst(state, msg) ==
    IF IsGreeting(msg) THEN "greeting"
    ELSE IF Has(state, "pendingExpense") /\ Has(state, "missingFields") THEN "completion"
    ELSE "classified"

\* part_000:1950, 1991, 2018: which part of processChatMessage takes the
\* message (an object and an array are truthy whatever they hold).
Route(state, msg) ==
    IF Has(state, "pendingExpense") /\ Has(state, "missingFields") THEN "completion"
    ELSE IF IsGreeting(msg) THEN "greeting"
    ELSE "classified"

\* The data of a classification: an array of items, or one object.
DataArray(items) == [array |-> TRUE, items |-> items]
DataObject(o) == [array |-> FALSE, items |-> <<o>>]
\* The named fields of a data value: an array has none of an expense's.
FieldsOf(data) == IF data.array THEN EmptyObj ELSE data.items[1]

Coffee == [amount |-> 150, name |-> "coffee", category |-> "food"]
CoffeeNoAmount == [name |-> "coffee", category |-> "food"]
CoffeeLarge == [amount |-> 200, name |-> "coffee", category |-> "food"]
CoffeeZero == [amount |-> 0, name |-> "coffee", category |-> "food"]
CoffeeNoCategory == [amount |-> 150, name |-> "coffee"]
FoodNoDescription == [amount |-> 150, category |-> "food"]

\* What the classification prompt is answered with in a conversation.
ChatObjects ==
    {[type |-> "expense", data |-> DataObject(d)] :
        d \in {Coffee, CoffeeNoAmount, CoffeeZero, CoffeeNoCategory, FoodNoDescription}}
      \cup {[type |-> "expense", isMultiple |-> TRUE,
             data |-> DataArray(<<Coffee, CoffeeLarge>>)],
            [type |-> "expense"],
            [type |-> "income", data |-> DataObject(Coffee)],
            [type |-> "income"],
            [type |-> "weather"],
            [type |-> "none"]}

ChatGatewayResults ==
    {GwThrow("errA")}
      \cup {GwReturn(Completion(<<Json(JObject(o))>>)) : o \in ChatObjects}
      \cup {GwReturn(Completion(<<FenceJson, Ws, Json(JObject([type |-> "expense", data |-> DataObject(Coffee)])), Ws, Fence>>))}

\* part_000:307-364 for a call of saveExpenseToDatabase with the data in
\* args ({} for undefined, on which reading .category is a TypeError that
\* the catch block turns into a failure).
SaveOutcomesOf(args) ==
    IF args = {} THEN {"type_error"}
    ELSE SaveOutcomes(ExpenseCreateData(CHOOSE d \in args : TRUE))

RowOf(args) ==
    IF args = {} THEN EmptyObj ELSE ExpenseCreateData(CHOOSE d \in args : TRUE)

\* What request r has given to expenseModel.create in the call of
\* saveExpenseToDatabase that has returned: the data of the call, the row
\* made of it, and whether the row was stored; nothing is given when the
\* call has failed before.
Handed(r, path, outcome) ==
    IF outcome \in {"type_error", "lookup_throws"} THEN {}
    ELSE {[request |-> r.id, user |-> r.user, path |-> path, step |-> r.step,
           item |-> r.item, data |-> r.args, row |-> RowOf(r.args),
           stored |-> (outcome = "stored")]}

\* The state object after a run of handleExpenseCompletion has assigned
\* pendingExpense's fields and state.missingFields.
MutatedState(state, eff) ==
    With(With(state, "pendingExpense", eff.pendingExpense), "missingFields", eff.missingFields)

\* part_000:1952: conversationStates.set(userId, completionResult.state),
\* once handleExpenseCompletion has returned.
StoredAfter(stored, eff) ==
    IF eff.kind = "save" THEN stored ELSE IF eff.fresh THEN "fresh" ELSE "object"

\* The request with its result at the saveChatMessage that ends every path;
\* the locals of the handler that has returned are gone.
AtHistory(r, result) ==
    [r EXCEPT !.pc = "history", !.result = result, !.message = NoUtterance,
              !.missingFields = <<>>,
              !.step = "", !.args = {}, !.item = 0, !.items = <<>>,
              !.successful = <<>>, !.failed = <<>>]

\* part_000:1951-1983: the request at the save handleExpenseCompletion
\* waits for, or with its result at the saveChatMessage that follows.
AfterCompletion(r, eff) ==
    IF eff.kind = "save"
    THEN [r EXCEPT !.pc = "save_completion", !.step = eff.step, !.args = {eff.pendingExpense}]
    ELSE AtHistory([r EXCEPT !.completed = eff.completed],
                   IF eff.completed
                   THEN ResultOf(eff.response, "expense_saved", {RowOf(r.args)}, {})
                   ELSE Result(eff.response, "pending"))

\* part_000:1991-2015: the greeting's result.
GreetingResult == Result("greeting", "greeting")

\* processChatMessage is called for user u with an utterance; the call
\* takes the lowest free slot and waits for getConversationContext.
Receive(s) ==
    /\ started < MaxRequests
    /\ requests[s].pc = "idle"
    /\ \A t \in Slots : t < s => requests[t].pc # "idle"
    /\ \E u \in Users, msg \in Utterances :
          requests' = [requests EXCEPT ![s] = NewRequest(started + 1, u, msg)]
    /\ started' = started + 1
    /\ UNCHANGED <<conversationStates, stateObjects, expenses>>

\* part_000:1941-2021: getConversationContext has returned (it never throws,
\* ChatHistory.ts:93-96); the state is read and the message goes to
\* handleExpenseCompletion, to the greeting, or to extractFinancialData
\* (whose answer is not derived from the message here, so that the message
\* is dropped).
ContextReturns(s) ==
    /\ requests[s].pc = "context"
    /\ LET r == requests[s]
           u == r.user
           state == StoredState(u)
           route == Route(state, r.message)
       IN  CASE route = "completion" ->
                  LET eff == CompletionAmount(state["pendingExpense"], state["missingFields"],
                                              state["missingFields"], r.message)
                      r2 == [r EXCEPT !.path = "completion",
                                      !.missingFields = state["missingFields"]]
                  IN  /\ requests' = [requests EXCEPT ![s] = AfterCompletion(r2, eff)]
                      /\ stateObjects' = [stateObjects EXCEPT ![u] = MutatedState(@, eff)]
                      /\ conversationStates' =
                            [conversationStates EXCEPT ![u] = StoredAfter(@, eff)]
             [] route = "greeting" ->
                  /\ requests' = [requests EXCEPT ![s] =
                        AtHistory([r EXCEPT !.path = "greeting"], GreetingResult)]
                  /\ UNCHANGED <<stateObjects, conversationStates>>
             [] route = "classified" ->
                  /\ requests' = [requests EXCEPT ![s] =
                        [r EXCEPT !.path = "classified", !.pc = "extract",
                                  !.message = NoUtterance]]
                  /\ UNCHANGED <<stateObjects, conversationStates>>
    /\ UNCHANGED <<started, expenses>>

\* part_000:2394-2416, 2451-2468, 2495-2512: saveExpenseToDatabase, called
\* by handleExpenseCompletion, has returned; the run goes on to its return
\* (or to its next save) on the state object as it is now.
SaveCompletionReturns(s) ==
    /\ LET r == requests[s]
           u == r.user
       IN  \E outcome \in SaveOutcomesOf(r.args) :
              LET success == (outcome = "stored")
                  state == stateObjects[u]
                  eff == CompletionAfterSave(r.step, success, state["pendingExpense"],
                                             state["missingFields"], r.missingFields,
                                             r.message)
                  r2 == [r EXCEPT !.saveFailed = ~success]
              IN  /\ expenses' = expenses \cup Handed(r, "completion", outcome)
                  /\ requests' = [requests EXCEPT ![s] = AfterCompletion(r2, eff)]
                  /\ stateObjects' = [stateObjects EXCEPT ![u] = MutatedState(@, eff)]
                  /\ conversationStates' =
                        [conversationStates EXCEPT ![u] = StoredAfter(@, eff)]
    /\ UNCHANGED started

\* part_000:2192-2196, 2199-2202: the entries pushed for item i, whose name
\* is "Expense <i>" when the item has none.
ItemName(d) == IF TruthyStr(d, "name") THEN d["name"] ELSE "Expense"
SuccessfulExpense(i, d) ==
    [item |-> i, name |-> ItemName(d),
     amount |-> IF Has(d, "amount") THEN {d["amount"]} ELSE {},
     category |-> IF TruthyStr(d, "category") THEN d["category"] ELSE "other"]
FailedExpense(i, d) == [item |-> i, name |-> ItemName(d)]

\* part_000:2226-2229: successfulExpenses.reduce((sum, exp) => sum + exp.amount, 0),
\* for amounts that are whole numbers.
RECURSIVE TotalAmount(_)
TotalAmount(successfulExpenses) ==
    IF successfulExpenses = <<>> THEN 0
    ELSE TotalAmount(SubSeq(successfulExpenses, 1, Len(successfulExpenses) - 1))
           + (CHOOSE a \in successfulExpenses[Len(successfulExpenses)].amount : TRUE)

\* part_000:2214-2258: the response of handleMultipleExpenseCreation.
MultipleResult(successful, failed) ==
    ResultOf(CASE Len(successful) > 0 /\ Len(failed) > 0 -> "multiple_saved_and_failed"
               [] Len(successful) > 0 /\ Len(failed) = 0 -> "multiple_saved"
               [] Len(successful) = 0 /\ Len(failed) > 0 -> "multiple_failed"
               [] OTHER -> "multiple_none",
             "expense_saved",
             {[successful |-> successful, failed |-> failed,
               totalSaved |-> Len(successful), totalFailed |-> Len(failed)]},
             IF Len(successful) > 0 THEN {TotalAmount(successful)} ELSE {})

\* part_000:2026-2105: the request after extractFinancialData has returned
\* x: at the save of a handler, or with a response at saveChatMessage.
Dispatch(r, x) ==
    LET data == IF Has(x, "data") THEN {x["data"]} ELSE {}
        one == {FieldsOf(d) : d \in data}
    IN  IF ~x.hasData
        THEN AtHistory(r, Result("didnt_understand", Absent))
        ELSE CASE x.type = "expense" ->
                    IF x.isMultiple /\ data # {} /\ (CHOOSE d \in data : TRUE).array
                    THEN LET items == (CHOOSE d \in data : TRUE).items
                         IN  IF Len(items) = 0
                             THEN AtHistory(r, MultipleResult(<<>>, <<>>))
                             ELSE [r EXCEPT !.pc = "save_multiple", !.items = items,
                                            !.item = 1, !.args = {items[1]}]
                    ELSE [r EXCEPT !.pc = "save_single", !.args = one]
               [] x.type = "income" ->
                    [r EXCEPT !.pc = "save_income", !.args = one]
               [] OTHER ->
                    AtHistory(r, Result("not_sure", Absent))

\* part_000:2018-2105: extractFinancialData has returned (it never throws);
\* providerFailed notes that callAIWithBestModel had thrown in it, which is
\* when both provider calls have failed (part_000:109-112).
ExtractionReturns(s) ==
    /\ requests[s].pc = "extract"
    /\ \E gw \in ChatGatewayResults :
          requests' = [requests EXCEPT ![s] =
                          Dispatch([requests[s] EXCEPT !.providerFailed = (gw.kind = "throw")],
                                   extractFinancialData(gw).value)]
    /\ UNCHANGED <<conversationStates, stateObjects, started, expenses>>

\* part_000:2152-2168: saveExpenseToDatabase, called by
\* handleExpenseCreation, has returned.
SaveSingleReturns(s) ==
    /\ LET r == requests[s]
       IN  \E outcome \in SaveOutcomesOf(r.args) :
              /\ expenses' = expenses \cup Handed(r, "single", outcome)
              /\ requests' = [requests EXCEPT ![s] =
                    AtHistory([r EXCEPT !.saveFailed = (outcome # "stored")],
                              IF outcome = "stored"
                              THEN ResultOf("expense_saved", "expense_saved",
                                            {RowOf(r.args)}, {})
                              ELSE Result("failed_to_save", Absent))]
    /\ UNCHANGED <<conversationStates, stateObjects, started>>

\* A slip: the loop ends at the first item that fails.
SaveMultipleReturnsUntilFailure(s) ==
    /\ LET r == requests[s]
       IN  \E outcome \in SaveOutcomesOf(r.args) :
              LET expenseData == r.items[r.item]
                  successful == IF outcome = "stored"
                                THEN Append(r.successful, SuccessfulExpense(r.item, expenseData))
                                ELSE r.successful
                  failed == IF outcome = "stored" THEN r.failed
                            ELSE Append(r.failed, FailedExpense(r.item, expenseData))
                  r2 == [r EXCEPT !.successful = successful, !.failed = failed]
              IN  /\ expenses' = expenses \cup Handed(r, "multiple", outcome)
                  /\ requests' = [requests EXCEPT ![s] =
                        IF r.item < Len(r.items) /\ outcome = "stored"
                        THEN [r2 EXCEPT !.item = r.item + 1, !.args = {r.items[r.item + 1]}]
                        ELSE AtHistory(r2, MultipleResult(successful, failed))]
    /\ UNCHANGED <<conversationStates, stateObjects, started>>

\* part_000:2185-2212: one pass of the loop of handleMultipleExpenseCreation:
\* the save of item i has returned; the next save is called, or the
\* response is built.
SaveMultipleReturns(s) ==
    /\ LET r == requests[s]
       IN  \E outcome \in SaveOutcomesOf(r.args) :
              LET expenseData == r.items[r.item]
                  successful == IF outcome = "stored"
                                THEN Append(r.successful, SuccessfulExpense(r.item, expenseData))
                                ELSE r.successful
                  failed == IF outcome = "stored" THEN r.failed
                            ELSE Append(r.failed, FailedExpense(r.item, expenseData))
                  r2 == [r EXCEPT !.successful = successful, !.failed = failed]
              IN  /\ expenses' = expenses \cup Handed(r, "multiple", outcome)
                  /\ requests' = [requests EXCEPT ![s] =
                        IF r.item < Len(r.items)
                        THEN [r2 EXCEPT !.item = r.item + 1, !.args = {r.items[r.item + 1]}]
                        ELSE AtHistory(r2, MultipleResult(successful, failed))]
    /\ UNCHANGED <<conversationStates, stateObjects, started>>

\* saveExpenseToDatabase has returned to the handler that called it.
SaveExpenseReturns(s) ==
    /\ requests[s].pc \in {"save_completion", "save_single", "save_multiple"}
    /\ CASE requests[s].pc = "save_completion" -> SaveCompletionReturns(s)
         [] requests[s].pc = "save_single" -> SaveSingleReturns(s)
         [] requests[s].pc = "save_multiple" -> SaveMultipleReturns(s)

\* part_000:2140-2142: the result of the catch block of processChatMessage.
ErrorResult == Result("error", Absent)

\* part_000:2262-2292: handleIncomeCreation. Reading a field of undefined
\* data throws, which the catch block of processChatMessage answers;
\* otherwise saveIncomeToDatabase has returned.
SaveIncomeReturns(s) ==
    /\ requests[s].pc = "save_income"
    /\ LET r == requests[s]
       IN  IF r.args = {}
           THEN requests' = [requests EXCEPT ![s] =
                                [AtHistory(r, ErrorResult) EXCEPT !.pc = "done"]]
           ELSE \E success \in BOOLEAN :
                   requests' = [requests EXCEPT ![s] =
                      AtHistory(r, IF success
                                   THEN Result("income_saved", "income_saved")
                                   ELSE Result("failed_to_save_income", Absent))]
    /\ UNCHANGED <<conversationStates, stateObjects, started, expenses>>

\* part_000:1956, 1971, 2004, 2108 and 2124-2143: saveChatMessage has
\* returned, or has thrown (ChatHistory.ts:55-58) into the catch block,
\* whose own saveChatMessage may fail without effect.
HistoryReturns(s) ==
    /\ requests[s].pc = "history"
    /\ \E saved \in BOOLEAN :
          requests' = [requests EXCEPT ![s] =
             [@ EXCEPT !.pc = "done",
                       !.result = IF saved THEN @ ELSE ErrorResult]]
    /\ UNCHANGED <<conversationStates, stateObjects, started, expenses>>

\* The call of processChatMessage has given its result to its caller.
Respond(s) ==
    /\ requests[s].pc = "done"
    /\ requests' = [requests EXCEPT ![s] = IdleRequest]
    /\ UNCHANGED <<conversationStates, stateObjects, started, expenses>>

\* A slip: the reset empties the whole Map.
clearConversationStateOfAll(u) ==
    /\ conversationStates' = [v \in Users |-> "none"]
    /\ UNCHANGED <<stateObjects, requests, started, expenses>>

\* part_000:2728-2731: clearConversationState.
clearConversationState(u) ==
    /\ conversationStates' = [conversationStates EXCEPT ![u] = "none"]
    /\ UNCHANGED <<stateObjects, requests, started, expenses>>

\* The pending expenses a stored state may hold. No statement of the
\* sources stores one (conversationStates.set is only reached from a state
\* that has one already), so they are inputs: the expense data of a
\* classification with its missing fields.
PendingDatas ==
    {CoffeeNoAmount, FoodNoDescription, CoffeeNoCategory, EmptyObj}

PendingState(u, d) ==
    [userId |-> u, pendingExpense |-> d, missingFields |-> MissingFieldsOf(d)]

ChatOff ==
    /\ conversationStates = [u \in Users |-> "none"]
    /\ stateObjects = [u \in Users |-> [userId |-> u]]
    /\ requests = [s \in Slots |-> IdleRequest]
    /\ started = 0
    /\ expenses = {}

----------------------------------------------------------------------------
(***************************************************************************)
(* 4. The anomaly alerts: addExpense and detectAnomalies (README.md)        *)
(***************************************************************************)

VARIABLES
    expenseDB,   \* the expenses added so far, each with category and amount
    anExpense,   \* the expense added last (NoAnExpense before the first)
    anAlerts     \* what detectAnomalies has returned for it

anVars == <<expenseDB, anExpense, anAlerts>>

\* Model bound: the expenses added in one behaviour.
MaxDB == 3

AnCategories == {"food", "transport"}
AnAmounts == {50, 100, 300}
Hours == 0..23

NoAnExpense == [category |-> "", amount |-> 0, hour |-> 0]

RECURSIVE SumAmounts(_)
SumAmounts(es) == IF es = <<>> THEN 0 ELSE Head(es).amount + SumAmounts(Tail(es))

\* README.md:1017-1019: expenseDB.filter((e) => e.category === expense.category)
CategoryExpenses(db, expense) ==
    SelectSeq(db, LAMBDA e : e.category = expense.category)

\* README.md:1020-1029: the amount check. avgAmount is sum / length, so
\* amount > avgAmount * 2 is amount * length > 2 * sum on these integers.
UnusualAlert(db, expense) ==
    LET categoryExpenses == CategoryExpenses(db, expense)
    IN  IF Len(categoryExpenses) > 0
           /\ expense.amount * Len(categoryExpenses) > 2 * SumAmounts(categoryExpenses)
        THEN <<"unusual">> ELSE <<>>

\* README.md:1032-1038: the time check on date.getHours().
LateNightAlert(expense) ==
    IF expense.hour < 6 \/ expense.hour > 23 THEN <<"late_night">> ELSE <<>>

\* A slip: the time is only looked at when the amount raised no alert.
detectAnomaliesElseIf(db, expense) ==
    IF UnusualAlert(db, expense) # <<>> THEN UnusualAlert(db, expense)
    ELSE LateNightAlert(expense)

\* README.md:1013-1040: detectAnomalies on the database as it is when called.
detectAnomalies(db, expense) ==
    UnusualAlert(db, expense) \o LateNightAlert(expense)

AnInit ==
    /\ expenseDB = <<>>
    /\ anExpense = NoAnExpense
    /\ anAlerts = <<>>

\* README.md:1000-1003 and 1614-1617: the expense is pushed to expenseDB,
\* then detectAnomalies is run on it.
PushAndDetect(expense) ==
    LET db == Append(expenseDB, [category |-> expense.category, amount |-> expense.amount])
    IN  /\ expenseDB' = db
        /\ anExpense' = expense
        /\ anAlerts' = detectAnomalies(db, expense)

\* README.md:1595-1625: addExpense, dated now.
addExpense ==
    /\ Len(expenseDB) < MaxDB
    /\ \E category \in AnCategories, amount \in AnAmounts, hour \in Hours :
          PushAndDetect([category |-> category, amount |-> amount, hour |-> hour])

\* README.md:990-1010: addSmartExpense, with the category, total and date of
\* a receipt.
addSmartExpense ==
    /\ Len(expenseDB) < MaxDB
    /\ \E category \in AnCategories, total \in AnAmounts, hour \in Hours :
          PushAndDetect([category |-> category, amount |-> total, hour |-> hour])

(***************************************************************************)
(* 5. Financial advice: handleAffordabilityCheck and handleSavingsTimeline  *)
(***************************************************************************)
\* Both handlers read the dashboard of getFinancialAnalytics and the amount
\* the classification carried, and return the reply of the chat operation.
\* advice holds the last advice request: what it was given and what it got.

VARIABLES advice

advVars == <<advice>>

\* The sums of the rows the dashboard finds, and the amounts a request
\* carries (0: data.amount is absent and the query names no amount).
TotalIncomes == {0, 1000, 50000, 51000}

TotalExpenseSums == {0, 300, 30000}

PurchaseAmounts == {0, 100, 400, 600, 1190, 35700, 50000}

Max(a, b) == IF a >= b THEN a ELSE b

\* getFinancialAnalytics(userId, "dashboard"): the balance is the difference of
\* the two sums; a failure of the lookup is reported as success: false.
getFinancialAnalytics(totalIncome, totalExpenses, found) ==
    IF found
    THEN [success |-> TRUE,
          data |-> [balance |-> totalIncome - totalExpenses,
                    totalIncome |-> totalIncome,
                    totalExpenses |-> totalExpenses]]
    ELSE [success |-> FALSE,
          data |-> [balance |-> 0, totalIncome |-> 0, totalExpenses |-> 0]]

Dashboards ==
    {getFinancialAnalytics(i, e, TRUE) : i \in TotalIncomes, e \in TotalExpenseSums}
        \cup {getFinancialAnalytics(0, 0, FALSE)}

\* A status line of a reply: the mark it starts with and its words.
Line(mark, words) == [mark |-> mark, words |-> words]

NoLine == Line("", "")

\* The reply of an advice handler; data is absent ({}) where the code returns
\* none.
AdviceReply(headline, riskLevel, months, data) ==
    [headline |-> headline, riskLevel |-> riskLevel, months |-> months,
     action |-> "advice", data |-> data]

NoMonths == [itemOnly |-> 0, at70Percent |-> 0, at50Percent |-> 0,
             withEmergencyFund |-> 0]

\* The rules of handleAffordabilityCheck with the income rule tried before the
\* safe-spending rule.
AffordabilityRulesIncomeFirst(balance, monthlyIncome, totalExpenses, purchaseAmount) ==
    LET recommendedReserve == totalExpenses * 3
        safeSpendingLimit == Max(0, balance - recommendedReserve)
    IN  IF balance <= 0
        THEN <<Line("cross", "NOT AFFORDABLE"), Line("red", "High Risk")>>
        ELSE IF purchaseAmount > balance
        THEN <<Line("cross", "NOT AFFORDABLE"), Line("red", "High Risk")>>
        ELSE IF 2 * purchaseAmount > monthlyIncome
        THEN <<Line("warning", "EXPENSIVE FOR YOUR INCOME"), Line("yellow", "Medium Risk")>>
        ELSE IF purchaseAmount > safeSpendingLimit
        THEN <<Line("warning", "RISKY PURCHASE"), Line("yellow", "Medium Risk")>>
        ELSE <<Line("check", "AFFORDABLE"), Line("green", "Low Risk")>>

\* The if / else-if chain of handleAffordabilityCheck: affordabilityStatus and
\* riskLevel.  incomePercentage > 50 is (purchaseAmount / monthlyIncome) * 100
\* > 50, which for whole amounts is 2 * purchaseAmount > monthlyIncome (the
\* quotient is exactly 0.5 when they are equal); the chain reaches it only
\* with balance > 0, hence monthlyIncome > 0.  emergencyFund (totalExpenses *
\* 6) is only printed.
AffordabilityRules(balance, monthlyIncome, totalExpenses, purchaseAmount) ==
    LET recommendedReserve == totalExpenses * 3
        safeSpendingLimit == Max(0, balance - recommendedReserve)
    IN  IF balance <= 0
        THEN <<Line("cross", "NOT AFFORDABLE"), Line("red", "High Risk")>>
        ELSE IF purchaseAmount > balance
        THEN <<Line("cross", "NOT AFFORDABLE"), Line("red", "High Risk")>>
        ELSE IF purchaseAmount > safeSpendingLimit
        THEN <<Line("warning", "RISKY PURCHASE"), Line("yellow", "Medium Risk")>>
        ELSE IF 2 * purchaseAmount > monthlyIncome
        THEN <<Line("warning", "EXPENSIVE FOR YOUR INCOME"), Line("yellow", "Medium Risk")>>
        ELSE <<Line("check", "AFFORDABLE"), Line("green", "Low Risk")>>

\* handleAffordabilityCheck(userId, data, userQuery): purchaseAmount is
\* data.amount || extractAmountFromQuery(userQuery).
handleAffordabilityCheck(analyticsResult, purchaseAmount) ==
    IF ~analyticsResult.success
    THEN AdviceReply(Line("", "General Affordability Guide"), NoLine, NoMonths, {})
    ELSE IF purchaseAmount = 0
    THEN AdviceReply(Line("", "I need to know the amount"), NoLine, NoMonths, {})
    ELSE
        LET balance == analyticsResult.data.balance
            rules == AffordabilityRules(balance, analyticsResult.data.totalIncome,
                                        analyticsResult.data.totalExpenses,
                                        purchaseAmount)
            affordabilityStatus == rules[1]
            riskLevel == rules[2]
        IN  AdviceReply(affordabilityStatus, riskLevel, NoMonths,
                {[affordable |-> affordabilityStatus.mark = "check",
                  purchaseAmount |-> purchaseAmount,
                  remainingBalance |-> balance - purchaseAmount,
                  riskLevel |-> IF riskLevel.mark = "green" THEN "low"
                                ELSE IF riskLevel.mark = "yellow" THEN "medium"
                                ELSE "high"]})

RECURSIVE Pow2(_)
Pow2(k) == IF k = 0 THEN 1 ELSE 2 * Pow2(k - 1)

\* The binary exponent of num / den (num >= den > 0): the largest e with
\* den * 2^e <= num.
RECURSIVE Exponent(_, _)
Exponent(num, den) == IF 2 * den <= num THEN 1 + Exponent(num, 2 * den) ELSE 0

\* Math.ceil(a / b) for whole a and whole b > 0.
Ceil(a, b) == 0 - ((0 - a) \div b)

\* Math.ceil(shortfall / (monthlySurplus * 0.7)) in IEEE 754 double arithmetic,
\* for whole shortfall and whole monthlySurplus >= 2.  The double 0.7 is
\* 0.7 - 0.2 * 2^-52.  With P = 7 * monthlySurplus / 10 in [2^e, 2^(e+1)) and
\* u = 2^(e-52) the spacing of the doubles there, P / u = K + a / 5 for whole K
\* and a in 0..4, and the product is the double R * u nearest to
\* (K + a/5 - monthlySurplus / (5 * 2^e)) * u, ties to the even R (K is even
\* exactly when a is).  g / 5 = P / u - R is what the product lacks.  Where
\* shortfall / P is no whole number the quotient is further from one than any
\* rounding; where it is the whole number n the quotient is the double nearest
\* to n * (1 + (g/5) * u / P), above n when that passes half the spacing of the
\* doubles at n (from n upward 2^(en-52), downward half of it when n is a
\* power of two), and Math.ceil of a double above n is n + 1.
CeilSeventyPercent(shortfall, monthlySurplus) ==
    LET e == Exponent(7 * monthlySurplus, 10)
        a == (((7 * monthlySurplus) % 5) * (<<1, 2, 4, 3>>[((51 - e) % 4) + 1])) % 5
        tn == a * Pow2(e) - monthlySurplus
        h == 5 * Pow2(e)
        rt == IF 2 * tn > h THEN 1
              ELSE IF 2 * tn < 0 - h THEN 0 - 1
              ELSE IF 2 * tn = h /\ a % 2 = 1 THEN 1
              ELSE IF 2 * tn = 0 - h /\ a % 2 = 1 THEN 0 - 1
              ELSE 0
        g == a - 5 * rt
        n == (10 * shortfall) \div (7 * monthlySurplus)
        an == IF n < 0 THEN 0 - n ELSE n
        en == Exponent(an, 1)
        up == g > 0 /\ 4 * g * an * Pow2(e) >= 7 * monthlySurplus * Pow2(en)
        down == /\ g < 0
                /\ (IF an = Pow2(en) THEN 8 ELSE 4) * (0 - g) * an * Pow2(e)
                       > 7 * monthlySurplus * Pow2(en)
    IN  IF (10 * shortfall) % (7 * monthlySurplus) # 0
        THEN Ceil(10 * shortfall, 7 * monthlySurplus)
        ELSE IF n = 0 THEN 0
        ELSE IF n > 0 THEN n + (IF up THEN 1 ELSE 0)
        ELSE n + (IF down THEN 1 ELSE 0)

\* The amount handleSavingsTimeline falls back to when neither the
\* classification, the query nor the conversation names one.
DefaultPurchaseAmount == 50000

\* handleSavingsTimeline(userId, data, userQuery, conversationContext).
\* monthlySurplus * 0.5 is exact, so the 50% months are ceil(2 * shortfall /
\* monthlySurplus).
handleSavingsTimeline(analyticsResult, amount) ==
    IF ~analyticsResult.success
    THEN AdviceReply(Line("", "Savings Timeline Calculator"), NoLine, NoMonths, {})
    ELSE
        LET balance == analyticsResult.data.balance
            totalExpenses == analyticsResult.data.totalExpenses
            monthlySurplus == analyticsResult.data.totalIncome - totalExpenses
            purchaseAmount == IF amount = 0 THEN DefaultPurchaseAmount ELSE amount
            targetAmount == purchaseAmount
            shortfall == targetAmount - balance
            emergencyFund == totalExpenses * 6
            requiredTotal == targetAmount + emergencyFund
            totalShortfall == requiredTotal - balance
            data == [targetAmount |-> targetAmount,
                     shortfall |-> Max(0, shortfall),
                     monthlySurplus |-> monthlySurplus,
                     timelineMonths |->
                         IF monthlySurplus > 0
                         THEN {CeilSeventyPercent(shortfall, monthlySurplus)}
                         ELSE {},
                     feasible |-> monthlySurplus > 0]
        IN  IF monthlySurplus <= 0
            THEN AdviceReply(Line("cross", "Cannot Save Currently"), NoLine,
                             NoMonths, {data})
            ELSE IF shortfall <= 0
            THEN AdviceReply(Line("check", "You can afford it now!"), NoLine,
                             NoMonths, {data})
            ELSE AdviceReply(Line("", "Timeline Options"), NoLine,
                     [itemOnly |-> Ceil(shortfall, monthlySurplus),
                      at70Percent |-> CeilSeventyPercent(shortfall, monthlySurplus),
                      at50Percent |-> Ceil(2 * shortfall, monthlySurplus),
                      withEmergencyFund |-> Ceil(totalShortfall, monthlySurplus)],
                     {data})

NoAdvice ==
    [requestType |-> "", analytics |-> getFinancialAnalytics(0, 0, FALSE),
     amount |-> 0,
     result |-> AdviceReply(NoLine, NoLine, NoMonths, {})]

AdvInit == advice = NoAdvice

\* handleAdviceRequest, case "affordability".
AdviceAffordability ==
    \E analyticsResult \in Dashboards, amount \in PurchaseAmounts :
        advice' = [requestType |-> "affordability",
                   analytics |-> analyticsResult, amount |-> amount,
                   result |-> handleAffordabilityCheck(analyticsResult, amount)]

\* handleAdviceRequest, case "savings_timeline".
AdviceSavingsTimeline ==
    \E analyticsResult \in Dashboards, amount \in PurchaseAmounts :
        advice' = [requestType |-> "savings_timeline",
                   analytics |-> analyticsResult, amount |-> amount,
                   result |-> handleSavingsTimeline(analyticsResult, amount)]

(***************************************************************************)
(* 6. Bank statement import: processBankStatement                           *)
(***************************************************************************)
\* statement is the uploaded file, its data rows in order (the header row,
\* which parseTransactionData steps over, is left out).  imp is the call of
\* processBankStatement: where it stands, the locals of
\* processTransactionsWithAI, and a log of the rows handed to
\* categorizeTransaction and saved.

VARIABLES statement, imp

impVars == <<statement, imp>>

MaxRows == 3

\* An amount of money as the double the program holds: amounts are written in
\* tenths, and the double's value is (t * 2^55 + d) / (5 * 2^56), t the tenths
\* meant and d what rounding has added.  All doubles from 0.0625 up to 4 are
\* whole multiples of 2^-56.
Double(t, d) == [t |-> t, d |-> d]

\* The double nearest to (t * 2^55 + d) / (5 * 2^56), ties to the even
\* mantissa: the spacing of the doubles in [2^e, 2^(e+1)) is 2^(e-52), which
\* is m = 5 * 2^(e+4) in the numerator, and 2^55 mod 2m is
\* 2^(e+5) * (2^(50-e) mod 5).  For values below 4.
DoubleRound(t, d) ==
    LET k == IF t > 20 \/ (t = 20 /\ d >= 0) THEN 6
             ELSE IF t > 10 \/ (t = 10 /\ d >= 0) THEN 5
             ELSE IF t > 5 \/ (t = 5 /\ d >= 0) THEN 4
             ELSE IF t >= 3 THEN 3
             ELSE IF t >= 2 THEN 2
             ELSE 1
        m == 5 * Pow2(k - 1)
        n2 == (t * Pow2(k) * (<<1, 2, 4, 3>>[((55 - k) % 4) + 1]) + d) % (2 * m)
        r == n2 % m
    IN  IF t = 0 /\ d = 0 THEN Double(0, 0)
        ELSE IF 2 * r < m THEN Double(t, d - r)
        ELSE IF 2 * r > m THEN Double(t, d + m - r)
        ELSE IF n2 >= m THEN Double(t, d + m - r)
        ELSE Double(t, d - r)

\* x + y of two doubles.
DoubleAdd(x, y) == DoubleRound(x.t + y.t, x.d + y.d)

StatementMerchants == {"zepto", "uber"}

\* The rows of a statement: Date, Merchant, Amount, Status, Bank, or a row of
\* fewer columns.  The amount column is a sign and a number of tenths; 0
\* tenths stands for a text that parseFloat reads as 0 or NaN.
StatementRows ==
    [length : {5}, merchant : StatementMerchants,
     amountStr : [minus : BOOLEAN, tenths : 0..3], status : {"SUCCESS", "FAILED"}]
        \cup {[length |-> 3, merchant |-> "zepto",
               amountStr |-> [minus |-> TRUE, tenths |-> 1], status |-> "SUCCESS"]}

\* parseTransactionRow(row): null ({}) for a short row and for an amount that
\* is 0 or not a number; line, the row's place in the file, is kept for the
\* log only.
parseTransactionRow(row, line) ==
    IF row.length < 5 THEN {}
    ELSE LET amount == DoubleRound(row.amountStr.tenths, 0)
         IN  IF amount = Double(0, 0) THEN {}
             ELSE {[name |-> row.merchant, amount |-> amount,
                    status |-> row.status, isIncome |-> ~row.amountStr.minus,
                    line |-> line]}

\* parseTransactionData(data), from row i on: rows of fewer than 5 columns and
\* rows parseTransactionRow returns null for are left out.
RECURSIVE parseTransactionData(_, _)
parseTransactionData(data, i) ==
    IF i > Len(data) THEN <<>>
    ELSE (IF data[i].length < 5 THEN <<>>
          ELSE LET transaction == parseTransactionRow(data[i], i)
               IN  IF transaction = {} THEN <<>>
                   ELSE <<CHOOSE x \in transaction : TRUE>>)
             \o parseTransactionData(data, i + 1)

\* intelligentCategorization(merchant): the first rule with a keyword the
\* merchant contains.
intelligentCategorization(merchant) ==
    IF merchant = "zepto" THEN "food"
    ELSE IF merchant = "uber" THEN "transport"
    ELSE "other"

\* categorizeTransaction(rawTx).
categorizeTransaction(rawTx) ==
    IF rawTx.isIncome
    THEN [type |-> "income", name |-> rawTx.name, amount |-> rawTx.amount,
          category |-> "", line |-> rawTx.line]
    ELSE [type |-> "expense", name |-> rawTx.name, amount |-> rawTx.amount,
          category |-> intelligentCategorization(rawTx.name), line |-> rawTx.line]

ImportCategories == {"food", "transport", "other"}

\* The locals of processTransactionsWithAI before its loop.
ImportStart ==
    [pc |-> "start", transactions |-> <<>>, processedTx |-> {},
     processed |-> 0, imported |-> 0, skipped |-> 0, errors |-> <<>>,
     totalExpenses |-> Double(0, 0), totalIncome |-> Double(0, 0),
     categories |-> [c \in ImportCategories |-> Double(0, 0)],
     log |-> {}, fileName |-> "", success |-> FALSE]

ImpInit ==
    /\ statement \in UNION {[1..n -> StatementRows] : n \in 0..MaxRows}
    /\ imp = ImportStart

ImpOff ==
    /\ statement = <<>>
    /\ imp = ImportStart

\* The extensions parseStatementFile tells apart.
FileNames == {"statement.csv", "statement.xlsx", "statement.pdf"}

\* parseStatementFile(fileBuffer, fileName): parsePDFFile ends in
\* parseKnownPDFFormat, which returns no rows; parseExcelFile and parseCSVFile
\* hand the rows of the file to parseTransactionData.
parseStatementFile(data, fileName) ==
    IF fileName = "statement.pdf" THEN <<>>
    ELSE parseTransactionData(data, 1)

\* A slip: an import succeeds as soon as a row was processed.
ContinueSuccessWhenProcessed(i) ==
    [i EXCEPT !.transactions = Tail(@), !.processedTx = {},
              !.pc = IF Len(i.transactions) > 1 THEN "loop" ELSE "done",
              !.success = IF Len(i.transactions) > 1 THEN @ ELSE i.processed > 0]

\* The end of one pass of the loop: on to the next transaction or to the
\* return, where success is imported > 0.
Continue(i) ==
    [i EXCEPT !.transactions = Tail(@), !.processedTx = {},
              !.pc = IF Len(i.transactions) > 1 THEN "loop" ELSE "done",
              !.success = IF Len(i.transactions) > 1 THEN @ ELSE i.imported > 0]

\* processBankStatement up to the loop of processTransactionsWithAI.
ParseStatement ==
    /\ imp.pc = "start"
    /\ \E fileName \in FileNames :
          LET transactions == parseStatementFile(statement, fileName)
          IN  imp' = IF Len(transactions) = 0
                     THEN [imp EXCEPT !.pc = "done", !.fileName = fileName,
                               !.success = FALSE,
                               !.errors = <<[text |-> "No transactions found in file",
                                             line |-> 0]>>]
                     ELSE [imp EXCEPT !.pc = "loop", !.fileName = fileName,
                               !.transactions = transactions]
    /\ UNCHANGED statement

\* One pass of the loop up to the call of saveTransactionToDatabase.
CategorizeNext ==
    /\ imp.pc = "loop"
    /\ LET rawTx == Head(imp.transactions)
           counted == [imp EXCEPT !.processed = @ + 1]
       IN  imp' = IF rawTx.status = "FAILED"
                  THEN Continue([counted EXCEPT !.skipped = @ + 1])
                  ELSE [counted EXCEPT
                            !.pc = "saving",
                            !.processedTx = {categorizeTransaction(rawTx)},
                            !.log = @ \cup {<<"categorized", rawTx.line>>}]
    /\ UNCHANGED statement

\* saveTransactionToDatabase returns, with success or with an error (an
\* exception of the save is caught there and returned as an error).
SaveTransactionReturns ==
    /\ imp.pc = "saving"
    /\ \E success \in BOOLEAN, processedTx \in imp.processedTx :
          imp' = IF success
                 THEN Continue(
                        [imp EXCEPT
                            !.imported = @ + 1,
                            !.log = @ \cup {<<"saved", processedTx.line>>},
                            !.totalExpenses =
                                IF processedTx.type = "expense"
                                THEN DoubleAdd(@, processedTx.amount) ELSE @,
                            !.categories[processedTx.category] =
                                IF processedTx.type = "expense"
                                THEN DoubleAdd(@, processedTx.amount) ELSE @,
                            !.totalIncome =
                                IF processedTx.type = "expense"
                                THEN @ ELSE DoubleAdd(@, processedTx.amount)])
                 ELSE Continue(
                        [imp EXCEPT
                            !.errors = Append(@, [text |-> "Failed to save",
                                                  line |-> processedTx.line]),
                            !.skipped = @ + 1])
    /\ UNCHANGED statement

(***************************************************************************)
(* 7. saveExpenseToDatabase on its own                                      *)
(***************************************************************************)
\* saveCall is the last call of saveExpenseToDatabase: the expense data it
\* was given, how the database answered, and the row that was stored.

VARIABLES saveCall

saveVars == <<saveCall>>

SaveInit == saveCall = [args |-> {}, outcome |-> "", row |-> {}]

\* saveExpenseToDatabase(userId, expenseData), for every expense data a
\* classification may carry and every answer of the database.
SaveExpense ==
    \E d \in ExpenseDatas :
        \E outcome \in SaveOutcomes(ExpenseCreateData(d)) :
            saveCall' = [args |-> {d}, outcome |-> outcome,
                         row |-> IF outcome = "stored"
                                 THEN {ExpenseCreateData(d)} ELSE {}]

(***************************************************************************)
(* 8. formatMonths                                                          *)
(***************************************************************************)
\* fmt is the last call of formatMonths: the number of months it was given
\* and the text it returned.

VARIABLES fmt

fmtVars == <<fmt>>

MaxMonths == 120

\* A rendered duration: the count of years with its unit and the count of
\* months with its unit, each absent ({} and "") when the text has no such part.
Duration(years, yearUnit, months, monthUnit) ==
    [years |-> years, yearUnit |-> yearUnit, months |-> months, monthUnit |-> monthUnit]

\* A slip: 12 months are still below a year.
formatMonthsYearAfterTwelve(months) ==
    IF months <= 1 THEN Duration({}, "", {1}, "month")
    ELSE IF months <= 12 THEN Duration({}, "", {months}, "months")
    ELSE
        LET years == months \div 12
            remainingMonths == months % 12
            yearUnit == IF years = 1 THEN "year" ELSE "years"
        IN  IF remainingMonths = 0
            THEN Duration({years}, yearUnit, {}, "")
            ELSE Duration({years}, yearUnit, {remainingMonths},
                          IF remainingMonths = 1 THEN "month" ELSE "months")

\* formatMonths(months), for whole months >= 0.
formatMonths(months) ==
    IF months <= 1 THEN Duration({}, "", {1}, "month")
    ELSE IF months < 12 THEN Duration({}, "", {months}, "months")
    ELSE
        LET years == months \div 12
            remainingMonths == months % 12
            yearUnit == IF years = 1 THEN "year" ELSE "years"
        IN  IF remainingMonths = 0
            THEN Duration({years}, yearUnit, {}, "")
            ELSE Duration({years}, yearUnit, {remainingMonths},
                          IF remainingMonths = 1 THEN "month" ELSE "months")

FmtInit == fmt = [months |-> 0, text |-> Duration({}, "", {}, "")]

\* A call of formatMonths by handleSavingsTimeline.
FormatMonths ==
    \E months \in 0..MaxMonths :
        fmt' = [months |-> months, text |-> formatMonths(months)]

(***************************************************************************)
(* 9. rateLimitByUser                                                       *)
(***************************************************************************)
\* userRequests is the Map of one middleware built by rateLimitByUser: per
\* key nothing ({}) or the one { count, resetTime } entry.  limiter holds
\* the requestsPerMinute the middleware was built with, the last request it
\* has answered, and per key the number of requests let through since the
\* key's entry was last set.

VARIABLES userRequests, limiter

rateVars == <<userRequests, limiter>>

MaxPerMinute == 2
MaxTicks == 5
WindowMs == 60000

\* The values of Date.now() at which requests arrive, in any order.
Instants == {k * (WindowMs \div 3) : k \in 0..MaxTicks}

\* The requests by what the key is made of: an authenticated user, an
\* address only, or neither.
RateRequests ==
    {[user |-> {"u1"}, ip |-> {"10.0.0.1"}],
     [user |-> {}, ip |-> {"10.0.0.1"}],
     [user |-> {}, ip |-> {}]}

\* part_008:164: req.user?.userId || req.ip || "anonymous"
RateKeyOf(req) ==
    IF req.user # {} THEN CHOOSE u \in req.user : TRUE
    ELSE IF req.ip # {} THEN CHOOSE a \in req.ip : TRUE
    ELSE "anonymous"

RateKeys == {RateKeyOf(req) : req \in RateRequests}

NoRequest == [userId |-> "", now |-> 0, status |-> ""]

RateInit ==
    /\ userRequests = [k \in RateKeys |-> {}]
    /\ limiter \in {[requestsPerMinute |-> n, last |-> NoRequest,
                     through |-> [k \in RateKeys |-> 0]] : n \in 1..MaxPerMinute}

\* A slip: the limit is compared with >, which lets one request more through.
rateLimitByUserOneMore ==
    \E req \in RateRequests, now \in Instants :
        LET userId == RateKeyOf(req)
            resetTime == now + WindowMs
            userLimit == userRequests[userId]
            Answer(status, through) ==
                limiter' = [limiter EXCEPT
                              !.last = [userId |-> userId, now |-> now, status |-> status],
                              !.through[userId] = through]
        IN  IF userLimit = {} \/ (\E l \in userLimit : now > l.resetTime)
            THEN /\ userRequests' = [userRequests EXCEPT
                                       ![userId] = {[count |-> 1, resetTime |-> resetTime]}]
                 /\ Answer("next", 1)
            ELSE \E l \in userLimit :
                    IF l.count > limiter.requestsPerMinute
                    THEN /\ UNCHANGED userRequests
                         /\ Answer("429", limiter.through[userId])
                    ELSE /\ userRequests' = [userRequests EXCEPT
                                               ![userId] = {[l EXCEPT !.count = @ + 1]}]
                         /\ Answer("next", limiter.through[userId] + 1)

\* part_008:159-188: the middleware answers one request, with next() or
\* with the status 429.
rateLimitByUser ==
    \E req \in RateRequests, now \in Instants :
        LET userId == RateKeyOf(req)
            resetTime == now + WindowMs
            userLimit == userRequests[userId]
            Answer(status, through) ==
                limiter' = [limiter EXCEPT
                              !.last = [userId |-> userId, now |-> now, status |-> status],
                              !.through[userId] = through]
        IN  IF userLimit = {} \/ (\E l \in userLimit : now > l.resetTime)
            THEN /\ userRequests' = [userRequests EXCEPT
                                       ![userId] = {[count |-> 1, resetTime |-> resetTime]}]
                 /\ Answer("next", 1)
            ELSE \E l \in userLimit :
                    IF l.count >= limiter.requestsPerMinute
                    THEN /\ UNCHANGED userRequests
                         /\ Answer("429", limiter.through[userId])
                    ELSE /\ userRequests' = [userRequests EXCEPT
                                               ![userId] = {[l EXCEPT !.count = @ + 1]}]
                         /\ Answer("next", limiter.through[userId] + 1)

\* The parts of the model that a specification leaves alone.
calcVars == <<anVars, advVars, impVars, saveVars, fmtVars, rateVars>>

CalcOff == AnInit /\ AdvInit /\ ImpOff /\ SaveInit /\ FmtInit /\ RateInit

vars == <<gwVars, exVars, chatVars, calcVars>>

\* The gateway alone: one invocation of callAIWithBestModel.
GatewayNext ==
    \/ GwCallPrimary /\ UNCHANGED <<exVars, chatVars, calcVars>>
    \/ GwPrimaryResolves /\ UNCHANGED <<exVars, chatVars, calcVars>>
    \/ GwPrimaryRejects /\ UNCHANGED <<exVars, chatVars, calcVars>>
    \/ GwFallbackResolves /\ UNCHANGED <<exVars, chatVars, calcVars>>
    \/ GwFallbackRejects /\ UNCHANGED <<exVars, chatVars, calcVars>>

GatewayInit == GwInit /\ ExOff /\ ChatOff /\ CalcOff

SpecGateway == GatewayInit /\ [][GatewayNext]_vars

ExtractNext ==
    \/ ExFinancial /\ UNCHANGED <<gwVars, chatVars, calcVars>>
    \/ ExExpense /\ UNCHANGED <<gwVars, chatVars, calcVars>>

\* The classifiers alone: one of them applied to one outcome of the gateway.
ExtractInit == GwOff /\ ExInit /\ ChatOff /\ CalcOff

SpecExtract == ExtractInit /\ [][ExtractNext]_vars

\* The conversations: calls of processChatMessage and of
\* clearConversationState, interleaved at their awaits.
Next ==
    \/ \E s \in Slots : Receive(s) /\ UNCHANGED <<gwVars, exVars, calcVars>>
    \/ \E s \in Slots : ContextReturns(s) /\ UNCHANGED <<gwVars, exVars, calcVars>>
    \/ \E s \in Slots : ExtractionReturns(s) /\ UNCHANGED <<gwVars, exVars, calcVars>>
    \/ \E s \in Slots : SaveExpenseReturns(s) /\ UNCHANGED <<gwVars, exVars, calcVars>>
    \/ \E s \in Slots : SaveIncomeReturns(s) /\ UNCHANGED <<gwVars, exVars, calcVars>>
    \/ \E s \in Slots : HistoryReturns(s) /\ UNCHANGED <<gwVars, exVars, calcVars>>
    \/ \E s \in Slots : Respond(s) /\ UNCHANGED <<gwVars, exVars, calcVars>>
    \/ \E u \in Users : clearConversationState(u) /\ UNCHANGED <<gwVars, exVars, calcVars>>

\* The server after start-up: new Map() (part_000:1915).
Init == GwOff /\ ExOff /\ ChatOff /\ CalcOff

Spec == Init /\ [][Next]_vars

\* The stored states the two users start with.  The users differ in nothing
\* but their names, so that of two servers that differ by swapping the users
\* one is enough; the starts taken are those with one user pending at most,
\* and two with both users pending.
PendingRank(state) ==
    IF ~Has(state, "pendingExpense") THEN 0
    ELSE CASE state["pendingExpense"] = CoffeeNoAmount -> 1
           [] state["pendingExpense"] = CoffeeNoCategory -> 2
           [] state["pendingExpense"] = FoodNoDescription -> 3
           [] OTHER -> 4
PendingPairs ==
    {<<0, rank>> : rank \in 0..4} \cup {<<1, 2>>, <<3, 4>>}

\* The server with pending expenses stored for some users.
PendingInit ==
    /\ GwOff
    /\ ExOff
    /\ conversationStates \in [Users -> {"none", "object"}]
    /\ stateObjects \in [Users -> UNION {{[userId |-> u], PendingState(u, d)} :
                                            u \in Users, d \in PendingDatas}]
    /\ \A u \in Users :
          /\ stateObjects[u]["userId"] = u
          /\ Has(stateObjects[u], "pendingExpense") <=> conversationStates[u] = "object"
    /\ <<PendingRank(stateObjects["u1"]), PendingRank(stateObjects["u2"])>> \in PendingPairs
    /\ requests = [s \in Slots |-> IdleRequest]
    /\ started = 0
    /\ expenses = {}
    /\ CalcOff

SpecPending == PendingInit /\ [][Next]_vars

\* The anomaly alerts alone: expenses added one after the other.
AnomalyNext ==
    \/ addExpense /\ UNCHANGED <<gwVars, exVars, chatVars, advVars, impVars, saveVars, fmtVars, rateVars>>
    \/ addSmartExpense /\ UNCHANGED <<gwVars, exVars, chatVars, advVars, impVars, saveVars, fmtVars, rateVars>>

AnomalyInit == GwOff /\ ExOff /\ ChatOff /\ AnInit /\ AdvInit /\ ImpOff /\ SaveInit /\ FmtInit /\ RateInit

SpecAnomaly == AnomalyInit /\ [][AnomalyNext]_vars

\* The advice handlers alone: one advice request after the other.
AdviceNext ==
    \/ AdviceAffordability /\ UNCHANGED <<gwVars, exVars, chatVars, anVars, impVars, saveVars, fmtVars, rateVars>>
    \/ AdviceSavingsTimeline /\ UNCHANGED <<gwVars, exVars, chatVars, anVars, impVars, saveVars, fmtVars, rateVars>>

AdviceInit == GwOff /\ ExOff /\ ChatOff /\ AnInit /\ AdvInit /\ ImpOff /\ SaveInit /\ FmtInit /\ RateInit

SpecAdvice == AdviceInit /\ [][AdviceNext]_vars

\* The statement import alone: one call of processBankStatement on one file.
ImportNext ==
    \/ ParseStatement /\ UNCHANGED <<gwVars, exVars, chatVars, anVars, advVars, saveVars, fmtVars, rateVars>>
    \/ CategorizeNext /\ UNCHANGED <<gwVars, exVars, chatVars, anVars, advVars, saveVars, fmtVars, rateVars>>
    \/ SaveTransactionReturns /\ UNCHANGED <<gwVars, exVars, chatVars, anVars, advVars, saveVars, fmtVars, rateVars>>

ImportInit == GwOff /\ ExOff /\ ChatOff /\ AnInit /\ AdvInit /\ ImpInit /\ SaveInit /\ FmtInit /\ RateInit

SpecImport == ImportInit /\ [][ImportNext]_vars

\* saveExpenseToDatabase alone: one call after the other.
SaveNext ==
    \/ SaveExpense /\ UNCHANGED <<gwVars, exVars, chatVars, anVars, advVars, impVars, fmtVars, rateVars>>

SaveOnlyInit == GwOff /\ ExOff /\ ChatOff /\ AnInit /\ AdvInit /\ ImpOff /\ SaveInit /\ FmtInit /\ RateInit

SpecSave == SaveOnlyInit /\ [][SaveNext]_vars

\* formatMonths alone: one call after the other.
MonthsNext ==
    \/ FormatMonths /\ UNCHANGED <<gwVars, exVars, chatVars, anVars, advVars, impVars, saveVars, rateVars>>

MonthsInit == GwOff /\ ExOff /\ ChatOff /\ AnInit /\ AdvInit /\ ImpOff /\ SaveInit /\ FmtInit /\ RateInit

SpecMonths == MonthsInit /\ [][MonthsNext]_vars

\* One rate limiter alone: one request after the other.
RateNext ==
    \/ rateLimitByUser /\ UNCHANGED <<gwVars, exVars, chatVars, anVars, advVars, impVars, saveVars, fmtVars>>

RateOnlyInit == GwOff /\ ExOff /\ ChatOff /\ AnInit /\ AdvInit /\ ImpOff /\ SaveInit /\ FmtInit /\ RateInit

SpecRate == RateOnlyInit /\ [][RateNext]_vars

\* What is left of a content once fences and whitespace are taken away.
IsWrapping(tok) == tok.t \in {"fence_json", "fence", "ws"}
IsPayload(tok) == ~IsWrapping(tok)
CoreOf(content) == SelectSeq(content, IsPayload)

\* The completion's content is no JSON text, code fences and whitespace
\* around it aside.
Unparsable(gw) ==
    /\ gw.kind = "return"
    /\ gw.value.choices = "one"
    /\ gw.value.content # <<>>
    /\ LET core == CoreOf(gw.value.content)
       IN  ~(Len(core) = 1 /\ core[1].t = "json")

\* The completion's content is a JSON object without a (non-empty) type.
ParsedWithoutType(gw) ==
    /\ gw.kind = "return"
    /\ gw.value.choices = "one"
    /\ \/ gw.value.content = <<>>
       \/ LET core == CoreOf(gw.value.content)
          IN  /\ Len(core) = 1
              /\ core[1].t = "json"
              /\ core[1].v.k = "object"
              /\ \/ ~Has(core[1].v.o, "type")
                 \/ core[1].v.o["type"] = ""

\* C8: extractFinancialData never raises to its caller, and it returns
\* {type: "none", hasData: false} when the gateway failed (threw), when the
\* content is no JSON text after the code fences are stripped, and when the
\* parsed object has no type.
C8_ExtractNeverRaises ==
    (exFn = "financial" /\ exOut.kind # "notrun") =>
        /\ exOut.kind = "return"
        /\ (exGw.kind = "throw" \/ Unparsable(exGw) \/ ParsedWithoutType(exGw)) =>
              exOut.value = NoneResult

\* A fenced JSON object with prose before it cannot be parsed, and the
\* caller got the "none" result.
C8_Witness ==
    /\ exFn = "financial"
    /\ Unparsable(exGw)
    /\ \E i \in 1..Len(exGw.value.content) : exGw.value.content[i].t = "json"
    /\ \E i \in 1..Len(exGw.value.content) : exGw.value.content[i].t = "fence_json"
    /\ exOut.kind = "return"
    /\ exOut.value = NoneResult

\* The claim's reading of "missing": the amount is absent or not above 0;
\* neither name nor description holds a text; the category holds no text.
NoText(d, k) == ~Has(d, k) \/ d[k] = ""
FieldIsMissing(d, f) ==
    CASE f = "amount" -> ~Has(d, "amount") \/ d["amount"] <= 0
      [] f = "description" -> NoText(d, "name") /\ NoText(d, "description")
      [] f = "category" -> NoText(d, "category")

RequiredOrder == <<"amount", "description", "category">>

\* C9: for every extracted expense, extractExpenseFromMessage lists the
\* missing fields in the order amount, description, category, and returns
\* one clarifying question, for the first missing field of that order; it
\* returns neither missingFields nor a question when nothing is missing.
C9_MissingFieldOrder ==
    (exFn = "expense" /\ exOut.kind = "return" /\ exOut.value.hasExpense) =>
        LET out == exOut.value
            d == out.expenseData
            IsMissing(f) == FieldIsMissing(d, f)
            expected == SelectSeq(RequiredOrder, IsMissing)
        IN  /\ Has(out, "missingFields") <=> expected # <<>>
            /\ Has(out, "clarificationQuestion") <=> expected # <<>>
            /\ expected # <<>> =>
                  /\ out.missingFields = expected
                  /\ out.clarificationQuestion.about = expected[1]

\* An expense with an amount but neither description nor category: both are
\* listed, in that order, and the question asks for the description.
C9_Witness ==
    /\ exFn = "expense"
    /\ exOut.kind = "return"
    /\ exOut.value.hasExpense
    /\ Has(exOut.value, "missingFields")
    /\ exOut.value.missingFields = <<"description", "category">>
    /\ exOut.value.clarificationQuestion.about = "description"

\* A call has failed when it rejected, or resolved with a value on which the
\* statements of the try block throw.
CallFailed(c) ==
    \/ c.settled = "rejected"
    \/ c.settled = "resolved" /\ c.value = NullResponse

CallSucceeded(c) == c.settled = "resolved" /\ c.value # NullResponse

\* C1: in every state of an invocation of callAIWithBestModel(task, messages,
\* tools): the first call is the primary one (to getOptimalModel(task), with
\* the given messages and tools) and there is exactly one primary call once
\* the invocation has started; a second call exists only when the primary
\* call has failed, it is the one fallback call (to the backup model) and
\* carries the same messages, tools and tool_choice as the primary call; a
\* successful primary call leaves one call; at most one call is in flight,
\* the fallback only after the primary has settled; at most two calls are
\* made.
C1_FallbackSequencing ==
    /\ Len(gwCalls) <= 2
    /\ (gwPc # "start") <=> (Len(gwCalls) >= 1)
    /\ Len(gwCalls) >= 1 =>
          /\ gwCalls[1].role = "primary"
          /\ gwCalls[1].client = getOptimalModel(gwTask).client
          /\ gwCalls[1].model = getOptimalModel(gwTask).model
          /\ gwCalls[1].messages = gwMessages
          /\ gwCalls[1].tools = gwTools
          /\ CallSucceeded(gwCalls[1]) => Len(gwCalls) = 1
    /\ Len(gwCalls) = 2 =>
          /\ CallFailed(gwCalls[1])
          /\ gwCalls[2].role = "fallback"
          /\ gwCalls[2].client = "groq"
          /\ gwCalls[2].model = "llama-3.3-70b-versatile"
          /\ gwCalls[2].messages = gwCalls[1].messages
          /\ gwCalls[2].tools = gwCalls[1].tools
          /\ gwCalls[2].tool_choice = gwCalls[1].tool_choice
    /\ Cardinality(gwInflight) <= 1
    /\ \A i \in gwInflight :
          /\ i \in 1..Len(gwCalls)
          /\ gwCalls[i].settled = "pending"
          /\ \A j \in 1..(i - 1) : gwCalls[j].settled # "pending"
    /\ \A i \in 1..Len(gwCalls) : gwCalls[i].settled = "pending" => i \in gwInflight

\* The fallback call, carrying tools, is in flight after a rejected primary.
C1_Witness ==
    /\ gwPc = "await_fallback"
    /\ Len(gwCalls) = 2
    /\ gwCalls[1].settled = "rejected"
    /\ gwCalls[2].tools.given
    /\ gwInflight = {2}

\* C2: callAIWithBestModel returns the primary response when the primary
\* call succeeds, returns the fallback response when the primary fails and
\* the fallback resolves, and when both fail throws once (the fallback's
\* error) after exactly two calls, with nothing left in flight.
C2_GatewayOutcome ==
    /\ (gwOutcome.kind = "none") <=> (gwPc \in {"start", "await_primary", "await_fallback"})
    /\ gwOutcome.kind # "none" => gwInflight = {}
    /\ (Len(gwCalls) >= 1 /\ CallSucceeded(gwCalls[1])) =>
          gwOutcome = [kind |-> "return", value |-> gwCalls[1].value]
    /\ (Len(gwCalls) = 2 /\ gwCalls[2].settled = "resolved") =>
          /\ CallFailed(gwCalls[1])
          /\ gwOutcome = [kind |-> "return", value |-> gwCalls[2].value]
    /\ (Len(gwCalls) = 2 /\ gwCalls[2].settled = "rejected") =>
          /\ CallFailed(gwCalls[1])
          /\ gwOutcome = [kind |-> "throw", value |-> gwCalls[2].value]
    /\ gwOutcome.kind = "return" =>
          \/ Len(gwCalls) = 1 /\ CallSucceeded(gwCalls[1])
          \/ Len(gwCalls) = 2 /\ gwCalls[2].settled = "resolved"
    /\ gwOutcome.kind = "throw" =>
          /\ gwPc = "thrown"
          /\ Len(gwCalls) = 2
          /\ gwCalls[2].settled = "rejected"

\* Both calls have failed and the caller got the failure.
C2_Witness ==
    /\ gwPc = "thrown"
    /\ gwCalls[1].settled = "rejected"
    /\ gwCalls[2].settled = "rejected"
    /\ gwOutcome.kind = "throw"

\* The stored state of user u holds a pending expense with missing fields.
HasPending(u) ==
    Has(StoredState(u), "pendingExpense") /\ Has(StoredState(u), "missingFields")

\* C3: an utterance classified as a single expense that misses exactly one
\* required field (amount, description or category) commits nothing: no
\* row made of such data is stored by the direct path.
C3_MissingFieldIsAskedFor ==
    \A e \in expenses :
        (e.path = "single" /\ e.stored) =>
            \A d \in e.data : Len(MissingFieldsOf(d)) # 1

\* C4: while the stored state of a user holds a pending expense with missing
\* fields, the utterance whose processing reads that state, whatever its
\* text, goes to handleExpenseCompletion (to its save or to its response),
\* and no request taken as an answer ever waits for extractFinancialData.
C4_PendingTakesNextUtterance ==
    /\ [](\A s \in Slots :
            requests[s].pc = "extract" => requests[s].path = "classified")
    /\ [][\A s \in Slots :
            (requests[s].pc = "context" /\ requests'[s].pc # "context"
               /\ HasPending(requests[s].user)) =>
                  /\ requests'[s].path = "completion"
                  /\ requests'[s].pc \in {"save_completion", "history"}]_vars

\* A greeting, sent while a description is missing, has been taken as the
\* description and the expense made of it is at its save.
C4_Witness ==
    \E s \in Slots :
        /\ requests[s].path = "completion"
        /\ requests[s].pc = "save_completion"
        /\ IsGreeting(requests[s].message)
        /\ requests[s].step = "description"

\* The rows request r has had stored.
StoredBy(r, log) == {e \in log : e.request = r.id /\ e.stored}

\* C5: a stored state never holds one of pendingExpense / missingFields
\* without the other; a run of handleExpenseCompletion goes to its save with
\* the fields accumulated in the pending expense; and in the step in which
\* it completes, the request has had exactly one row stored, made of those
\* fields, and the stored state of its user is the empty { userId }.
C5_CompleteCommitsAndClears ==
    /\ [](\A u \in Users :
            Has(StoredState(u), "pendingExpense") <=> Has(StoredState(u), "missingFields"))
    /\ [][\A s \in Slots :
            /\ (requests'[s].pc = "save_completion" /\ requests'[s] # requests[s]) =>
                  requests'[s].args = {stateObjects'[requests'[s].user]["pendingExpense"]}
            /\ (~requests[s].completed /\ requests'[s].completed) =>
                  /\ requests[s].pc = "save_completion"
                  /\ StoredState(requests[s].user)' = [userId |-> requests[s].user]
                  /\ Cardinality(StoredBy(requests[s], expenses')) = 1
                  /\ \A e \in StoredBy(requests[s], expenses') :
                        /\ e.data = requests[s].args
                        /\ e.row = RowOf(requests[s].args)
                        /\ e.path = "completion"]_vars

\* A pending expense has completed: its row is stored and the state of its
\* user is the empty one.
C5_Witness ==
    \E s \in Slots :
        /\ requests[s].completed
        /\ requests[s].pc = "history"
        /\ conversationStates[requests[s].user] = "fresh"
        /\ StoredBy(requests[s], expenses) # {}

\* The requests of user u inside processChatMessage.
InFlight(u) == {s \in Slots : requests[s].user = u /\ requests[s].pc \notin {"idle", "done"}}

\* C6: at most one message of a user is inside processChatMessage at a
\* time, and the pending expense of a user leads to at most one stored row.
C6_PerUserSerialized ==
    \A u \in Users :
        /\ Cardinality(InFlight(u)) <= 1
        /\ Cardinality({e \in expenses : e.user = u /\ e.path = "completion" /\ e.stored}) <= 1

\* C7: every row given to expenseModel.create has an amount greater than 0.
C7_AmountPresentWhenHanded ==
    \A e \in expenses : Has(e.row, "amount") /\ e.row["amount"] > 0

\* The responses that say that a save has failed (part_000:2166, 2413, 2240).
SaveFailedResponses ==
    {"failed_to_save", "completion_save_failed", "multiple_failed",
     "multiple_saved_and_failed"}

ChatReply(result) ==
    [status |-> 200, response |-> result.response,
     action |-> IF result.action = Absent THEN "chat" ELSE result.action]
TechnicalDifficultiesReply ==
    [status |-> 500, response |-> "technical_difficulties", action |-> Absent]

\* C11: every call of processChatMessage that has returned carries a textual
\* response and an action tag.
C11_ResultHasResponseAndAction ==
    \A s \in Slots :
        requests[s].pc = "done" =>
            /\ requests[s].result.response # ""
            /\ requests[s].result.action # Absent

\* C12: when both provider calls have failed in the classification of a
\* message, the reply of that turn is the technical-difficulties message.
C12_ProviderFailureIsTechnicalDifficulties ==
    \A s \in Slots :
        (requests[s].pc \in {"history", "done"} /\ requests[s].providerFailed) =>
            ChatReply(requests[s].result).response = TechnicalDifficultiesReply.response

\* The expenses of the category of the expense added last that were there
\* before it.
PriorExpenses ==
    CategoryExpenses(SubSeq(expenseDB, 1, Len(expenseDB) - 1), anExpense)

\* C13: the unusual-amount alert is raised exactly when the category has
\* prior expenses and the amount is more than twice their mean (the new
\* expense left out): amount * count > 2 * sum.
C13_UnusualIffTwicePriorMean ==
    Len(expenseDB) > 0 =>
        (("unusual" \in {anAlerts[i] : i \in 1..Len(anAlerts)}) <=>
            (/\ Len(PriorExpenses) > 0
             /\ anExpense.amount * Len(PriorExpenses) > 2 * SumAmounts(PriorExpenses)))

\* C14: the late-night alert is raised exactly when the hour is below 6,
\* whatever the amount check gave, and the list returned is the amount
\* alert (if any) followed by the late-night alert (if any).
C14_LateNightIffBeforeSix ==
    Len(expenseDB) > 0 =>
        /\ ("late_night" \in {anAlerts[i] : i \in 1..Len(anAlerts)}) <=> anExpense.hour < 6
        /\ anAlerts = SelectSeq(anAlerts, LAMBDA a : a = "unusual")
                        \o SelectSeq(anAlerts, LAMBDA a : a = "late_night")
        /\ Len(anAlerts) = Cardinality({anAlerts[i] : i \in 1..Len(anAlerts)})
        /\ ("unusual" \in {anAlerts[i] : i \in 1..Len(anAlerts)}) <=>
              (UnusualAlert(expenseDB, anExpense) # <<>>)

\* An expense added at an hour below 6 has raised both alerts.
C14_Witness ==
    /\ anAlerts = <<"unusual", "late_night">>
    /\ anExpense.hour < 6

\* C15: for every dashboard and every purchase amount > 0 the verdict of
\* handleAffordabilityCheck is that of the first rule that matches, in the
\* order: balance <= 0 (not affordable, high), purchase > balance (not
\* affordable, high), purchase > balance - 3 * expenses (risky, medium),
\* purchase / income > 0.5 (expensive for the income, medium), otherwise
\* affordable (low); data.affordable is true exactly for the affordable
\* verdict and data.riskLevel is the risk of the verdict.  No rule reads
\* 6 * expenses.
C15_FirstMatchingRuleDecides ==
    (advice.requestType = "affordability" /\ advice.analytics.success
        /\ advice.amount > 0) =>
        LET balance == advice.analytics.data.balance
            income == advice.analytics.data.totalIncome
            expensesSum == advice.analytics.data.totalExpenses
            purchase == advice.amount
            verdict ==
                IF balance <= 0 THEN <<"NOT AFFORDABLE", "high">>
                ELSE IF purchase > balance THEN <<"NOT AFFORDABLE", "high">>
                ELSE IF purchase > balance - 3 * expensesSum
                THEN <<"RISKY PURCHASE", "medium">>
                ELSE IF 2 * purchase > income
                THEN <<"EXPENSIVE FOR YOUR INCOME", "medium">>
                ELSE <<"AFFORDABLE", "low">>
        IN  /\ advice.result.headline.words = verdict[1]
            /\ advice.result.data # {}
            /\ \A d \in advice.result.data :
                  /\ d.affordable <=> verdict[1] = "AFFORDABLE"
                  /\ d.riskLevel = verdict[2]

\* An affordability check where both the safe-spending rule and the income
\* rule match, and the earlier of the two has given the verdict.
C15_Witness ==
    /\ advice.requestType = "affordability"
    /\ advice.analytics.success
    /\ advice.analytics.data.balance > 0
    /\ advice.amount > 0
    /\ advice.amount <= advice.analytics.data.balance
    /\ advice.amount > advice.analytics.data.balance
                           - 3 * advice.analytics.data.totalExpenses
    /\ 2 * advice.amount > advice.analytics.data.totalIncome
    /\ advice.result.headline.words = "RISKY PURCHASE"

\* C16: handleSavingsTimeline takes monthlySurplus = income - expenses; with
\* monthlySurplus <= 0 the result is infeasible; otherwise, with shortfall =
\* target - balance, shortfall <= 0 gives "affordable now"; otherwise the
\* months shown are ceil(shortfall / (monthlySurplus * rate)) for the rates
\* 100%, 70% and 50%, and ceil((target + 6 * expenses - balance) /
\* monthlySurplus) with the emergency fund.
C16_TimelineOrderAndMonths ==
    (advice.requestType = "savings_timeline" /\ advice.analytics.success
        /\ advice.amount > 0) =>
        LET balance == advice.analytics.data.balance
            expensesSum == advice.analytics.data.totalExpenses
            monthlySurplus == advice.analytics.data.totalIncome - expensesSum
            target == advice.amount
            shortfall == target - balance
        IN  IF monthlySurplus <= 0
            THEN /\ advice.result.headline.words = "Cannot Save Currently"
                 /\ \A d \in advice.result.data : ~d.feasible
            ELSE IF shortfall <= 0
            THEN advice.result.headline.words = "You can afford it now!"
            ELSE advice.result.months =
                    [itemOnly |-> Ceil(shortfall, monthlySurplus),
                     at70Percent |-> Ceil(10 * shortfall, 7 * monthlySurplus),
                     at50Percent |-> Ceil(2 * shortfall, monthlySurplus),
                     withEmergencyFund |->
                         Ceil(target + 6 * expensesSum - balance, monthlySurplus)]

\* The rows of the statement by what the claims call them.
MalformedLines == {i \in 1..Len(statement) : statement[i].length < 5}

UnreadableLines ==
    {i \in 1..Len(statement) :
        statement[i].length >= 5 /\ statement[i].amountStr.tenths = 0}

FailedStatusLines ==
    {i \in 1..Len(statement) :
        statement[i].length >= 5 /\ statement[i].status = "FAILED"}

SavedLines == {i \in 1..Len(statement) : <<"saved", i>> \in imp.log}

\* C17: when every row that is neither malformed nor of failed status has
\* been saved (and some row has), the import reports imported = rows - f - m and skipped = f + m,
\* f the rows of failed status and m the malformed rows.
C17_MalformedAndFailedAreSkipped ==
    (/\ imp.pc = "done"
     /\ SavedLines # {}
     /\ UnreadableLines = {}
     /\ \A i \in 1..Len(statement) :
           i \in MalformedLines \cup FailedStatusLines \cup SavedLines) =>
        /\ imp.imported = Len(statement) - Cardinality(FailedStatusLines)
                              - Cardinality(MalformedLines)
        /\ imp.skipped = Cardinality(FailedStatusLines) + Cardinality(MalformedLines)

\* C18: when an import that found transactions returns, every row that failed (it could not be
\* parsed, or its save reported failure) has an entry in the errors list,
\* every row that could be parsed has been processed, the rows saved are the
\* rows counted as imported, and no row of failed status has been categorized
\* or saved.
C18_RowFailureIsRecordedAndIsolated ==
    (imp.pc = "done" /\ imp.processed > 0) =>
        /\ \A i \in 1..Len(statement) :
              (\/ i \in MalformedLines \cup UnreadableLines
               \/ i \notin FailedStatusLines \cup SavedLines) =>
                  \E k \in 1..Len(imp.errors) : imp.errors[k].line = i
        /\ imp.processed = Len(statement) - Cardinality(MalformedLines \cup UnreadableLines)
        /\ imp.imported = Cardinality(SavedLines)
        /\ \A i \in FailedStatusLines :
              <<"categorized", i>> \notin imp.log /\ <<"saved", i>> \notin imp.log

RECURSIVE TenthsOf(_)
TenthsOf(lines) ==
    IF lines = {} THEN 0
    ELSE LET i == CHOOSE x \in lines : TRUE
         IN  statement[i].amountStr.tenths + TenthsOf(lines \ {i})

\* C19: at every point of an import the per-category totals add up to
\* summary.totalExpenses, and both hold the amounts of the rows saved as
\* expenses and of no other row.
C19_CategoryTotalsSumToTotalExpenses ==
    LET savedExpenses == {i \in SavedLines : statement[i].amountStr.minus}
    IN  /\ DoubleAdd(DoubleAdd(imp.categories["food"], imp.categories["transport"]),
                     imp.categories["other"]) = imp.totalExpenses
        /\ imp.totalExpenses.t = TenthsOf(savedExpenses)
        /\ \A c \in ImportCategories :
              imp.categories[c].t =
                  TenthsOf({i \in savedExpenses :
                              intelligentCategorization(statement[i].merchant) = c})

\* C20: the pending expense of a user is created by the classification of an
\* utterance as an expense with missing fields; it leaves the stored state
\* only in a step that completes it or in clearConversationState for that
\* user; and an utterance read while none is stored is not taken as an answer.
C20_PendingLifecycle ==
    /\ [][\A s \in Slots :
            (/\ requests[s].pc = "extract"
             /\ requests'[s].pc = "save_single"
             /\ \E d \in requests'[s].args : Len(MissingFieldsOf(d)) > 0) =>
                HasPending(requests[s].user)']_vars
    /\ [][\A u \in Users :
            (HasPending(u) /\ ~HasPending(u)') =>
                \/ conversationStates'[u] = "none"
                \/ \E s \in Slots :
                      /\ requests[s].user = u
                      /\ requests[s].path = "completion"
                      /\ ~requests[s].completed /\ requests'[s].completed]_vars
    /\ [][\A s \in Slots :
            (/\ requests[s].pc = "context" /\ requests'[s].pc # "context"
             /\ ~HasPending(requests[s].user)) =>
                requests'[s].path # "completion"]_vars

\* C21: a step changes the stored state of at most one user; when a request
\* moves in that step it is a request of that user; a row handed to the
\* database in a step is handed by a request of the row's user and holds that
\* request's data; and a request is taken as an answer exactly when the
\* stored state of its own user holds a pending expense.
C21_UsersAreIndependent ==
    /\ [][\A u \in Users :
            (\/ conversationStates'[u] # conversationStates[u]
             \/ stateObjects'[u] # stateObjects[u]) =>
                /\ \A v \in Users \ {u} :
                      /\ conversationStates'[v] = conversationStates[v]
                      /\ stateObjects'[v] = stateObjects[v]
                /\ \A s \in Slots :
                      requests'[s] # requests[s] => requests[s].user = u]_vars
    /\ [][\A e \in expenses' \ expenses :
            \E s \in Slots :
                /\ requests'[s] # requests[s]
                /\ requests[s].user = e.user
                /\ requests[s].args = e.data]_vars
    /\ [][\A s \in Slots :
            (requests[s].pc = "context" /\ requests'[s].pc # "context") =>
                (requests'[s].path = "completion" <=>
                    /\ conversationStates[requests[s].user] = "object"
                    /\ Has(stateObjects[requests[s].user], "pendingExpense")
                    /\ Has(stateObjects[requests[s].user], "missingFields"))]_vars

\* One user's pending expense has been completed and stored while the other
\* user's pending expense is still waiting, with nothing stored for that user.
C21_Witness ==
    \E u \in Users, v \in Users :
        /\ u # v
        /\ conversationStates[u] = "fresh"
        /\ \E e \in expenses : e.user = u /\ e.stored /\ e.path = "completion"
        /\ HasPending(v)
        /\ \A e \in expenses : e.user # v

\* C22: every expense that saveExpenseToDatabase stores has a category: the
\* one given in the data when there is one; otherwise the one the keyword
\* lookup finds for the description, or for the name when there is no
\* description, which is "other" when no keyword matches.
C22_StoredExpenseHasCategory ==
    \A d \in saveCall.args, row \in saveCall.row :
        /\ row.categoryName \in CategoryNames
        /\ TruthyStr(d, "category") => row.categoryName = d["category"]
        /\ ~TruthyStr(d, "category") =>
              LET text == IF TruthyStr(d, "description") THEN d["description"]
                          ELSE IF TruthyStr(d, "name") THEN d["name"]
                          ELSE ""
              IN  /\ row.categoryName = categorizeExpenseAuto(text)
                  /\ text \notin {"coffee", "food", "lunch", "uber", "taxi"} =>
                        row.categoryName = "other"

\* An expense without a category and with a description that holds no keyword
\* has been stored under "other", and its name holds a keyword.
C22_Witness ==
    \E d \in saveCall.args, row \in saveCall.row :
        /\ ~TruthyStr(d, "category")
        /\ TruthyStr(d, "description")
        /\ TruthyStr(d, "name") /\ categorizeExpenseAuto(d["name"]) = "food"
        /\ row.categoryName = "other"

\* C23: for every whole number of months n >= 1 the text of formatMonths
\* shows n div 12 years and n mod 12 months: below 12 only the months, with a
\* remainder of 0 only the years, and a unit is singular exactly when its
\* count is 1.
C23_FormatMonthsYearsAndRemainder ==
    (fmt.text.monthUnit # "" \/ fmt.text.yearUnit # "") =>
        LET n == fmt.months
            text == fmt.text
        IN  n >= 1 =>
              /\ text.years = (IF n >= 12 THEN {n \div 12} ELSE {})
              /\ text.months = (IF n < 12 THEN {n}
                                ELSE IF n % 12 = 0 THEN {} ELSE {n % 12})
              /\ text.yearUnit = (IF text.years = {} THEN ""
                                  ELSE IF text.years = {1} THEN "year" ELSE "years")
              /\ text.monthUnit = (IF text.months = {} THEN ""
                                   ELSE IF text.months = {1} THEN "month" ELSE "months")

\* 14 months have been rendered as 1 year, 2 months.
C23_Witness ==
    /\ fmt.months = 14
    /\ fmt.text = Duration({1}, "year", {2}, "months")

\* C29: in the data of a savings timeline, timelineMonths is null exactly
\* when feasible is false; when feasible is true it is a whole number >= 0
\* that agrees with the reported shortfall: 0 when the reported shortfall is
\* 0, and otherwise the months of the 70% timeline shown in the text.
C29_TimelineMonthsAgreeWithShortfall ==
    advice.requestType = "savings_timeline" =>
        \A d \in advice.result.data :
            /\ d.timelineMonths = {} <=> ~d.feasible
            /\ d.feasible =>
                  \A n \in d.timelineMonths :
                      /\ n >= 0
                      /\ d.shortfall = 0 => n = 0
                      /\ d.shortfall > 0 => n = advice.result.months.at70Percent

\* C28: when processTransactionsWithAI returns, processed = imported + skipped
\* = the number of rows it was given, errors.length <= skipped, and success
\* holds exactly when imported > 0; when the file yields no rows (an empty
\* file, or a PDF) processBankStatement returns success false, all counts 0
\* and the one error "No transactions found in file".
C28_ImportCountsAddUp ==
    imp.pc = "done" =>
        LET rows == Len(parseStatementFile(statement, imp.fileName))
        IN  IF rows = 0
            THEN /\ ~imp.success
                 /\ imp.processed = 0 /\ imp.imported = 0 /\ imp.skipped = 0
                 /\ Len(imp.errors) = 1
                 /\ imp.errors[1].text = "No transactions found in file"
            ELSE /\ imp.processed = rows
                 /\ imp.processed = imp.imported + imp.skipped
                 /\ Len(imp.errors) <= imp.skipped
                 /\ imp.success <=> imp.imported > 0

\* An import has returned with one row saved, one row of failed status
\* skipped without an error and one row whose save failed.
C28_Witness ==
    /\ imp.pc = "done"
    /\ imp.processed = 3 /\ imp.imported = 1 /\ imp.skipped = 2
    /\ Len(imp.errors) = 1
    /\ imp.errors[1].text = "Failed to save"

\* A PDF with rows in it has been answered with no transactions found.
C28_WitnessPdf ==
    /\ imp.pc = "done"
    /\ imp.fileName = "statement.pdf"
    /\ Len(statement) > 0
    /\ Len(imp.errors) = 1

\* The field a pending state is waiting for: the first of its missing fields.
Awaiting(state, field) ==
    /\ Has(state, "pendingExpense") /\ Has(state, "missingFields")
    /\ Len(state["missingFields"]) > 0
    /\ state["missingFields"][1] = field

\* C24: an invalid answer is a stutter step of the pending expense: a reply
\* without a number while the amount is awaited, and a reply naming none of
\* the categories while the category is awaited, leave every stored state
\* (pending expense and missing fields) as it was, hand nothing to the
\* database, and are answered by the question for the same field.
C24_InvalidAnswerChangesNothing ==
    [][\A s \in Slots :
         (requests[s].pc = "context" /\ requests'[s].pc # "context") =>
            LET state == StoredState(requests[s].user)
                msg == requests[s].message
                same == /\ stateObjects' = stateObjects
                        /\ conversationStates' = conversationStates
                        /\ expenses' = expenses
                        /\ requests'[s].pc = "history"
                        /\ ~requests'[s].completed
            IN  /\ (Awaiting(state, "amount") /\ AmountMatch(msg) = {}) =>
                      /\ same
                      /\ requests'[s].result = Result("no_amount_found", "pending")
                /\ (Awaiting(state, "category") /\ CategoryMatch(msg) = {}) =>
                      /\ same
                      /\ requests'[s].result = Result("choose_category", "pending")]_vars

\* One user's reply without an amount and the other user's reply without a
\* category have both been answered by the question asked before, and both
\* pending expenses are still as they were given.
C24_Witness ==
    \E s \in Slots, t \in Slots :
        /\ requests[s].result = Result("no_amount_found", "pending")
        /\ requests[t].result = Result("choose_category", "pending")
        /\ stateObjects[requests[s].user] = PendingState(requests[s].user, CoffeeNoAmount)
        /\ stateObjects[requests[t].user] = PendingState(requests[t].user, CoffeeNoCategory)
        /\ conversationStates = [u \in Users |-> "object"]
        /\ expenses = {}

\* The sum of the amounts of the items of the given positions.
RECURSIVE AmountsOf(_, _)
AmountsOf(items, positions) ==
    IF positions = {} THEN 0
    ELSE LET i == CHOOSE x \in positions : TRUE
         IN  items[i]["amount"] + AmountsOf(items, positions \ {i})

\* C25: handleMultipleExpenseCreation saves the items in their order, one
\* save per item whether or not the save before it failed; when it returns,
\* every item is in exactly one of the successful and the failed list
\* (totalSaved + totalFailed = n), the successful ones are those whose row
\* was stored, and the total of the response is the sum of the amounts of
\* the successful items.
C25_EveryItemHandledOnce ==
    [][\A s \in Slots :
         (requests[s].pc = "save_multiple" /\ requests'[s] # requests[s]) =>
            LET r == requests[s]
                q == requests'[s]
                n == Len(r.items)
                stored == {e.item : e \in {x \in expenses' : /\ x.request = r.id
                                                             /\ x.path = "multiple"
                                                             /\ x.stored}}
            IN  /\ q.pc = (IF r.item < n THEN "save_multiple" ELSE "history")
                /\ q.pc = "save_multiple" =>
                      /\ q.items = r.items
                      /\ q.item = r.item + 1
                      /\ q.args = {r.items[q.item]}
                      /\ Len(q.successful) + Len(q.failed) = r.item
                /\ q.pc = "history" =>
                      /\ q.result.action = "expense_saved"
                      /\ \A d \in q.result.data :
                            LET saved == {d.successful[k].item : k \in 1..Len(d.successful)}
                                failed == {d.failed[k].item : k \in 1..Len(d.failed)}
                            IN  /\ d.totalSaved + d.totalFailed = n
                                /\ d.totalSaved = Cardinality(saved)
                                /\ d.totalFailed = Cardinality(failed)
                                /\ saved \cup failed = 1..n
                                /\ saved \cap failed = {}
                                /\ saved = stored
                                /\ \A k \in 1..(Len(d.successful) - 1) :
                                      d.successful[k].item < d.successful[k + 1].item
                                /\ \A k \in 1..(Len(d.failed) - 1) :
                                      d.failed[k].item < d.failed[k + 1].item
                                /\ saved # {} => q.result.total = {AmountsOf(r.items, saved)}
                                /\ saved = {} => q.result.total = {}
                      /\ q.result.data # {}]_vars

\* Of two expenses the first has failed and the second has been saved, with
\* the second's amount alone as the total of the response.
C25_Witness ==
    \E s \in Slots :
        /\ requests[s].pc \in {"history", "done"}
        /\ requests[s].result.total = {200}
        /\ \E d \in requests[s].result.data :
              /\ d.totalSaved = 1 /\ d.totalFailed = 1
              /\ d.failed[1].item = 1
              /\ d.successful[1].item = 2
              /\ \E e \in expenses : e.path = "multiple" /\ e.item = 2 /\ e.stored

\* Both expenses have been saved, with the total 350.
C25_WitnessBoth ==
    \E s \in Slots :
        /\ requests[s].pc \in {"history", "done"}
        /\ requests[s].result.total = {350}

\* C27: a call of processChatMessage that has had an expense stored returns
\* a result with the action "expense_saved" and the saved data, whatever
\* happens after the row was stored.
C27_CommittedTurnSaysExpenseSaved ==
    \A s \in Slots :
        (requests[s].pc = "done" /\ StoredBy(requests[s], expenses) # {}) =>
            /\ requests[s].result.action = "expense_saved"
            /\ requests[s].result.data # {}

\* What handleExpenseCompletion makes of reply msg on the pending state of
\* user u.
ReplyOn(u, msg) ==
    CompletionAmount(stateObjects[u]["pendingExpense"], stateObjects[u]["missingFields"],
                     stateObjects[u]["missingFields"], msg)

\* Every reply to the pending state of user u is answered "I didn't
\* understand that" and leaves the state as it is.
Stuck(u) ==
    \A msg \in Utterances :
        /\ ReplyOn(u, msg).kind = "return"
        /\ ReplyOn(u, msg).response = "not_understood"
        /\ ~ReplyOn(u, msg).fresh
        /\ ReplyOn(u, msg).pendingExpense = stateObjects[u]["pendingExpense"]
        /\ ReplyOn(u, msg).missingFields = stateObjects[u]["missingFields"]

C30_AtMostNPerWindow ==
    /\ [](\A k \in RateKeys :
            /\ limiter.through[k] <= limiter.requestsPerMinute
            /\ \A l \in userRequests[k] : l.count = limiter.through[k] /\ l.count >= 1)
    /\ [][LET last == limiter'.last
              k == last.userId
          IN  /\ \A j \in RateKeys \ {k} :
                    /\ userRequests'[j] = userRequests[j]
                    /\ limiter'.through[j] = limiter.through[j]
              /\ last.status = "429" =>
                    /\ userRequests' = userRequests
                    /\ \E l \in userRequests[k] :
                          l.count >= limiter.requestsPerMinute /\ last.now <= l.resetTime
              /\ \A l \in userRequests[k] :
                    last.now > l.resetTime =>
                        /\ last.status = "next"
                        /\ userRequests'[k] =
                              {[count |-> 1, resetTime |-> last.now + WindowMs]}
              /\ last.status = "next" =>
                    \E l \in userRequests'[k] :
                        /\ l.count <= limiter.requestsPerMinute
                        /\ last.now <= l.resetTime]_vars

\* On one key a window has been filled and the next request refused, while a
\* request of another key, made at the same time, has been let through.
C30_Witness ==
    /\ limiter.requestsPerMinute = 2
    /\ limiter.last = [userId |-> "u1", now |-> WindowMs, status |-> "429"]
    /\ userRequests["u1"] = {[count |-> 2, resetTime |-> WindowMs]}
    /\ userRequests["10.0.0.1"] = {[count |-> 1, resetTime |-> 2 * WindowMs]}
    /\ userRequests["anonymous"] = {}

=============================================================================
